---- MODULE Spec2Model ----
(***************************************************************************)
(* A model of the chain-indexing engine of bitcore-node-zen: the DB        *)
(* service (lib/services/db), the transaction service                      *)
(* (lib/services/transaction.js) and the process bootstrap.                *)
(*                                                                         *)
(* The levelup store is a function from keys to values.  A key is a        *)
(* sequence: its first two elements are the two prefix bytes, the third    *)
(* is the rest of the key (a name, or a 32-byte id written as a string).   *)
(***************************************************************************)
EXTENDS Integers, Sequences, FiniteSets, TLC

VARIABLES
    store,      \* the levelup store: key -> value, DOMAIN = the keys present
    alive,      \* the process is running
    crashes,    \* number of process crashes so far
    calls,      \* DB.getPrefix calls: service name -> position and locals
    returned,   \* history: service name -> prefixes its getPrefix calls gave
    lastCall,   \* history: the getPrefix call that called back last
    boot,       \* DB.start and the start of the services: position and locals
    node,       \* node.services (started so far), each service's prefix,
                \* whether node.stop was requested
    db,         \* DB: tip, concurrentTip (hash and __height) and the reorg flag
    sync,       \* the sync driver: "Idle", "Syncing" or "Stopping"
    rg,         \* the reorg handler: position and the local suffix left
    ap,         \* the connectBlock / disconnectBlock in flight
    cur,        \* TransactionService.currentTransactions
    upTip,      \* the tip of the upstream node's active chain
    hist,       \* history of the block applies and their commits
    proc,       \* the process: the exit handlers' state, its exit
    mempool,    \* the transaction service's _mempool and the upstream mempool
    subscriptions, \* DB's subscriptions: the emitters of each event
    codec       \* a record on its way through its encoder and its decoder

-----------------------------------------------------------------------------
(* Bounds *)

\* The process crashes at most this many times in one behaviour.
MaxCrashes == 1

\* A process handles at most this many uncaught exceptions.
MaxExceptions == 2

engineVars == << boot, node, db, sync, rg, ap, cur, upTip, hist >>

prefixVars == << calls, returned, lastCall >>

serviceVars == << mempool, subscriptions, codec >>

vars == << store, alive, crashes, calls, returned, lastCall,
           boot, node, db, sync, rg, ap, cur, upTip, hist, proc,
           mempool, subscriptions, codec >>

-----------------------------------------------------------------------------
(* Buffers and the store *)

\* Largest value writeUInt16BE accepts.
UInt16Max == 65535

\* Buffer.readUInt16BE of a 2-byte buffer <<hi, lo>>.
readUInt16BE(buffer) == buffer[1] * 256 + buffer[2]

\* Buffer.writeUInt16BE into a 2-byte buffer; the call throws when the value
\* does not fit 16 bits (WriteUInt16Throws).
writeUInt16BE(v) == << v \div 256, v % 256 >>

WriteUInt16Throws(v) == v < 0 \/ v > UInt16Max

\* this.dbPrefix = '\u0000\u0000'
dbPrefix == << 0, 0 >>

SysKey(name) == dbPrefix \o << name >>

PrefixKey(service) == SysKey("prefix-" \o service)

NextUnusedKey == SysKey("nextUnused")

Has(st, k) == k \in DOMAIN st

\* store.put(key, value)
Put(st, k, v) == [x \in DOMAIN st \cup {k} |-> IF x = k THEN v ELSE st[x]]

\* store.del(key)
Del(st, k) == [x \in DOMAIN st \ {k} |-> st[x]]

EmptyStore == [x \in {} |-> << >>]

-----------------------------------------------------------------------------
(* DB.prototype.getPrefix *)

\* The names getPrefix is called with.
ServiceNames == {"timestamp", "transaction", "address"}

IdleCall == [pc |-> "idle", buffer |-> << >>, had |-> FALSE, snap |-> << >>]

NoCall == [service |-> "", result |-> << >>, had |-> FALSE, before |-> << >>,
           storeBefore |-> << >>, storeAfter |-> << >>]

\* default of getUnused when nextUnused is not found: new Buffer('0001', 'hex')
FirstPrefix == << 0, 1 >>

\* mutant of NextUnusedValue: the counter is written back unchanged
NextUnusedValue_Same(prefix) == prefix

\* putUnused: nextUnused.writeUInt16BE(prefix + 1)
NextUnusedValue(prefix) == prefix + 1

\* mutant of PrefixFound: the stored prefix is never found
PrefixFound_Never(st, service) == FALSE

\* inner getPrefix: store.get of prefix-<service> gives a buffer (no error)
PrefixFound(st, service) == Has(st, PrefixKey(service))

\* The callback of DB.getPrefix is invoked with (null, buffer); after is the
\* store at that moment.  The history records what the call was given, what
\* the store held for the service when the call began, and the store then
\* and now.
CallBack(service, buffer, after) ==
    /\ returned' = [returned EXCEPT ![service] = @ \cup {buffer}]
    /\ lastCall' = [service |-> service, result |-> buffer,
                    had |-> calls[service].had,
                    before |-> IF calls[service].had
                               THEN calls[service].snap[PrefixKey(service)]
                               ELSE << >>,
                    storeBefore |-> calls[service].snap,
                    storeAfter |-> after]

\* DB.getPrefix(service, callback) is called: async.waterfall starts with the
\* inner getPrefix, whose store.get is issued.  had/snap remember what the
\* store held when the call began.
callGetPrefix(service) ==
    /\ alive
    /\ \A t \in ServiceNames : calls[t].pc \in {"idle", "done"}
    /\ calls' = [calls EXCEPT ![service] =
                    [pc |-> "getPrefix", buffer |-> << >>,
                     had |-> Has(store, PrefixKey(service)),
                     snap |-> store]]

\* A caller other than a starting service calls DB.getPrefix.
DB_getPrefix(service) ==
    /\ callGetPrefix(service)
    /\ UNCHANGED << store, alive, crashes, serviceVars, proc, returned, lastCall >>
    /\ UNCHANGED engineVars

\* DB.getPrefix(service, callback) is called while the waterfall of a call
\* for another service may be at any of its steps: getPrefix takes no lock.
DB_getPrefixInterleaved(service) ==
    /\ alive
    /\ calls[service].pc \in {"idle", "done"}
    /\ calls' = [calls EXCEPT ![service] =
                    [pc |-> "getPrefix", buffer |-> << >>,
                     had |-> Has(store, PrefixKey(service)),
                     snap |-> store]]
    /\ UNCHANGED << store, alive, crashes, serviceVars, proc, returned, lastCall >>
    /\ UNCHANGED engineVars

\* inner function getPrefix(next): the callback of store.get(prefix-<service>)
getPrefix(service) ==
    /\ alive
    /\ calls[service].pc = "getPrefix"
    /\ IF PrefixFound(store, service)
       THEN \* we already have the prefix, call the callback
            /\ CallBack(service, store[PrefixKey(service)], store)
            /\ calls' = [calls EXCEPT ![service].pc = "done",
                                      ![service].buffer = store[PrefixKey(service)]]
       ELSE \* err.notFound: next()
            /\ calls' = [calls EXCEPT ![service].pc = "getUnused"]
            /\ UNCHANGED << returned, lastCall >>
    /\ UNCHANGED << store, alive, crashes, serviceVars, proc >>
    /\ UNCHANGED engineVars

\* inner function getUnused(next): the callback of store.get(nextUnused)
getUnused(service) ==
    /\ alive
    /\ calls[service].pc = "getUnused"
    /\ calls' = [calls EXCEPT ![service].pc = "putPrefix",
                              ![service].buffer =
                                  IF Has(store, NextUnusedKey)
                                  THEN store[NextUnusedKey] ELSE FirstPrefix]
    /\ UNCHANGED << store, alive, crashes, serviceVars, proc, returned, lastCall >>
    /\ UNCHANGED engineVars

\* inner function putPrefix(buffer, next): store.put(prefix-<service>, buffer)
putPrefix(service) ==
    /\ alive
    /\ calls[service].pc = "putPrefix"
    /\ store' = Put(store, PrefixKey(service), calls[service].buffer)
    /\ calls' = [calls EXCEPT ![service].pc = "putUnused"]
    /\ UNCHANGED << alive, crashes, serviceVars, proc, returned, lastCall >>
    /\ UNCHANGED engineVars

\* inner function putUnused(buffer, next): writeUInt16BE(prefix + 1) throws
\* when the value needs more than 16 bits; the exception is uncaught and ends
\* the process (exitHandler).  Otherwise store.put(nextUnused) and the
\* waterfall calls back with the buffer.
putUnused(service) ==
    /\ alive
    /\ calls[service].pc = "putUnused"
    /\ LET prefix == readUInt16BE(calls[service].buffer)
           v == NextUnusedValue(prefix)
       IN IF WriteUInt16Throws(v)
          THEN /\ calls' = [calls EXCEPT ![service].pc = "thrown"]
               /\ alive' = FALSE
               /\ UNCHANGED << store, returned, lastCall >>
          ELSE /\ store' = Put(store, NextUnusedKey, writeUInt16BE(v))
               /\ CallBack(service, calls[service].buffer,
                           Put(store, NextUnusedKey, writeUInt16BE(v)))
               /\ calls' = [calls EXCEPT ![service].pc = "done"]
               /\ UNCHANGED alive
    /\ UNCHANGED << crashes, serviceVars, proc >>
    /\ UNCHANGED engineVars

-----------------------------------------------------------------------------
(* Blocks and transactions of the upstream node *)

\* The block tree the upstream node may serve: genesis G, its child P, and
\* two branches on P, A1 <- A2 and B1 <- B2 <- B3.  A block's name stands for
\* block.hash, the hex string of its hash.
Blocks == {"G", "P", "A1", "A2", "B1", "B2", "B3"}

genesis == "G"

ParentOf == [b \in Blocks \ {genesis} |->
               CASE b = "P" -> "G"
                 [] b = "A1" -> "P"
                 [] b = "A2" -> "A1"
                 [] b = "B1" -> "P"
                 [] b = "B2" -> "B1"
                 [] b = "B3" -> "B2"]

RECURSIVE ChainHeight(_)
ChainHeight(b) == IF b = genesis THEN 0 ELSE ChainHeight(ParentOf[b]) + 1

\* The chain from genesis to b, genesis first.
RECURSIVE ChainTo(_)
ChainTo(b) == IF b = genesis THEN << b >> ELSE Append(ChainTo(ParentOf[b]), b)

\* new Buffer(hash, 'hex'): the bytes of a hash in display order (two bytes
\* stand for the 32).
HexBytes == [b \in Blocks |->
               CASE b = "G" -> << 16, 1 >>
                 [] b = "P" -> << 32, 2 >>
                 [] b = "A1" -> << 48, 3 >>
                 [] b = "A2" -> << 64, 4 >>
                 [] b = "B1" -> << 80, 5 >>
                 [] b = "B2" -> << 96, 6 >>
                 [] b = "B3" -> << 112, 7 >>]

\* buffer.toString('hex') of a hash; bytes that are no block's hash give a
\* string no block has.
BytesToHex(bytes) ==
    IF \E b \in Blocks : HexBytes[b] = bytes
    THEN CHOOSE b \in Blocks : HexBytes[b] = bytes
    ELSE "unknown"

\* BufferUtil.reverse
BufferReverse(buffer) == [i \in 1..Len(buffer) |-> buffer[Len(buffer) + 1 - i]]

\* block.header.prevHash: the parent's hash in internal (reversed) byte order
HeaderPrevHash(b) ==
    IF b = genesis THEN << 0, 0 >> ELSE BufferReverse(HexBytes[ParentOf[b]])

\* What the timestamp service answers for a block hash.
BlockTimestamp == [b \in Blocks |-> 1000 + 10 * ChainHeight(b) + HexBytes[b][2]]

\* The transactions: a coinbase has no inputs; an input names an output of an
\* earlier transaction; outputs are satoshis.
TxIds == {"cg", "cp", "ca1", "ca2", "cb1", "cb2", "cb3", "t1", "t2", "t3", "t4"}

In(prevTxId, outputIndex) == [prevTxId |-> prevTxId, outputIndex |-> outputIndex]

TxInputs == [t \in TxIds |->
               CASE t = "t1" -> << In("cp", 0) >>
                 [] t = "t2" -> << In("t1", 1) >>
                 [] t = "t3" -> << In("t2", 0) >>
                 [] t = "t4" -> << In("t1", 0), In("t1", 1) >>
                 [] OTHER -> << >>]

TxOutputs == [t \in TxIds |->
               CASE t = "t1" -> << 30, 20 >>
                 [] t = "t2" -> << 20 >>
                 [] t = "t3" -> << 20 >>
                 [] t = "t4" -> << 50 >>
                 [] OTHER -> << 50 >>]

\* tx.isCoinbase()
isCoinbase(t) == TxInputs[t] = << >>

\* block.transactions; t1 is mined on both branches, t2 and t3 only on A, t4
\* only on B; t2 spends an output of t1 of the same block.
BlockTxs == [b \in Blocks |->
               CASE b = "G" -> << "cg" >>
                 [] b = "P" -> << "cp" >>
                 [] b = "A1" -> << "ca1", "t1", "t2" >>
                 [] b = "A2" -> << "ca2", "t3" >>
                 [] b = "B1" -> << "cb1", "t1" >>
                 [] b = "B2" -> << "cb2", "t4" >>
                 [] b = "B3" -> << "cb3" >>]

\* A Block as the handlers see it: hash, header.prevHash, the __height its
\* caller set, and its transactions.
BlockAt(b, height) ==
    [hash |-> b, prevHash |-> HeaderPrevHash(b), height |-> height,
     transactions |-> BlockTxs[b]]

-----------------------------------------------------------------------------
(* Records of the store *)

\* Buffer.writeUInt32BE; throws when the value does not fit 32 bits.
writeUInt32BE(v) ==
    << (v \div 16777216) % 256, (v \div 65536) % 256, (v \div 256) % 256, v % 256 >>

WriteUInt32Throws(v) == v < 0 \/ v \div 65536 > UInt16Max

\* buffer.readUInt32BE(offset): offset counts the elements before the field
readUInt32BE(buffer, offset) ==
    buffer[offset + 1] * 16777216 + buffer[offset + 2] * 65536
        + buffer[offset + 3] * 256 + buffer[offset + 4]

\* Number of elements that stand for the 32-byte hash of a tip record.
HashLen == 2

TipKey == SysKey("tip")

ConcurrentTipKey == SysKey("concurrentTip")

VersionKey == SysKey("version")

\* this.version = 2
version == 2

\* mutant of getTipOperation: the parent's hash is written as it stands in
\* the header, without BufferUtil.reverse
getTipOperation_NoReverse(block, add) ==
    [type |-> "put", key |-> TipKey,
     value |-> IF add
               THEN HexBytes[block.hash] \o writeUInt32BE(block.height)
               ELSE block.prevHash \o writeUInt32BE(block.height - 1)]

\* mutant of getTipOperation: on connect the height is written one too low
getTipOperation_LowHeight(block, add) ==
    [type |-> "put", key |-> TipKey,
     value |-> IF add /\ block.height > 0
               THEN HexBytes[block.hash] \o writeUInt32BE(block.height - 1)
               ELSE IF add
               THEN HexBytes[block.hash] \o writeUInt32BE(block.height)
               ELSE BufferReverse(block.prevHash) \o writeUInt32BE(block.height - 1)]

\* DB.prototype.getTipOperation
getTipOperation(block, add) ==
    [type |-> "put", key |-> TipKey,
     value |-> IF add
               THEN HexBytes[block.hash] \o writeUInt32BE(block.height)
               ELSE BufferReverse(block.prevHash) \o writeUInt32BE(block.height - 1)]

\* mutant of getConcurrentTipOperation: on a disconnect the concurrent tip
\* stays at the disconnected block
getConcurrentTipOperation_NoRewind(block, add) ==
    [type |-> "put", key |-> ConcurrentTipKey,
     value |-> HexBytes[block.hash] \o writeUInt32BE(block.height)]

\* DB.prototype.getConcurrentTipOperation
getConcurrentTipOperation(block, add) ==
    [type |-> "put", key |-> ConcurrentTipKey,
     value |-> IF add
               THEN HexBytes[block.hash] \o writeUInt32BE(block.height)
               ELSE BufferReverse(block.prevHash) \o writeUInt32BE(block.height - 1)]

\* The height either tip operation writes; writeUInt32BE throws on it when it
\* is negative.
TipOperationHeight(block, add) == IF add THEN block.height ELSE block.height - 1

\* loadTip: tipData.slice(0, 32).toString('hex')
TipHash(tipData) == BytesToHex(SubSeq(tipData, 1, HashLen))

\* loadTip: tipData.readUInt32BE(32)
TipHeight(tipData) == readUInt32BE(tipData, HashLen)

\* store.batch(operations): every op is applied, in order, or none is
RECURSIVE ApplyOps(_, _)
ApplyOps(st, ops) ==
    IF ops = << >> THEN st
    ELSE ApplyOps(IF Head(ops).type = "put"
                  THEN Put(st, Head(ops).key, Head(ops).value)
                  ELSE Del(st, Head(ops).key),
                  Tail(ops))

-----------------------------------------------------------------------------
(* The transaction service *)

\* mutant of encodeTransactionKey: the key is the txid without the prefix
encodeTransactionKey_NoPrefix(prefix, txid) == << txid >>

\* TransactionService.prototype._encodeTransactionKey; the txid string stands
\* for new Buffer(txid, 'hex')
encodeTransactionKey(prefix, txid) == prefix \o << txid >>

\* TransactionService.prototype._encodeTransactionValue: the height in four
\* bytes, the timestamp (one element stands for the 8-byte double), the byte
\* length of the input values in two bytes, the input values (one element per
\* double) and the raw transaction (its txid stands for transaction.toBuffer()).
encodeTransactionValue(tx) ==
    writeUInt32BE(tx.height) \o << tx.timestamp >>
        \o writeUInt16BE(Len(tx.inputValues) * 8) \o tx.inputValues \o << tx.id >>

\* TransactionService.prototype._decodeTransactionValue
decodeTransactionValue(buffer) ==
    LET inputValuesLength == readUInt16BE(SubSeq(buffer, 6, 7))
        inputValues == [i \in 1..(inputValuesLength \div 8) |-> buffer[7 + i]]
    IN [id |-> buffer[Len(inputValues) + 8],
        height |-> readUInt32BE(buffer, 0),
        timestamp |-> buffer[5],
        inputValues |-> inputValues]

NoTx == [id |-> "", height |-> 0, timestamp |-> 0, inputValues |-> << >>]

\* TransactionService.prototype.getTransaction with options = {} (no mempool
\* query): currentTransactions first, then the store.  current is
\* currentTransactions, a function from txids to transactions.
getTransaction(txid, current, st, prefix) ==
    IF txid \in DOMAIN current
    THEN [err |-> FALSE, tx |-> current[txid]]
    ELSE IF Has(st, encodeTransactionKey(prefix, txid))
    THEN [err |-> FALSE,
          tx |-> decodeTransactionValue(st[encodeTransactionKey(prefix, txid)])]
    ELSE [err |-> TRUE, tx |-> NoTx]

\* TransactionService.prototype._getInputValues: for each input the satoshis
\* of the output it spends; an error when a previous transaction is not found
\* or has no such output.
getInputValues(txid, current, st, prefix) ==
    LET inputs == TxInputs[txid]
        prev == [k \in 1..Len(inputs) |->
                    getTransaction(inputs[k].prevTxId, current, st, prefix)]
        bad(k) == \/ prev[k].err
                  \/ inputs[k].outputIndex + 1 > Len(TxOutputs[prev[k].tx.id])
    IN IF isCoinbase(txid)
       THEN [err |-> FALSE, values |-> << >>]
       ELSE IF \E k \in 1..Len(inputs) : bad(k)
       THEN [err |-> TRUE, values |-> << >>]
       ELSE [err |-> FALSE,
             values |-> [k \in 1..Len(inputs) |->
                           TxOutputs[prev[k].tx.id][inputs[k].outputIndex + 1]]]

\* mutant of HandlerAction: every op is a put
HandlerAction_AlwaysPut(connectBlock) == "put"

\* blockHandler: var action = 'put'; if (!connectBlock) action = 'del'
HandlerAction(connectBlock) == IF connectBlock THEN "put" ELSE "del"

\* blockHandler, the async.eachSeries over block.transactions from the i-th
\* on: each transaction is decorated, entered in currentTransactions and gives
\* one op; the first error ends the series.
RECURSIVE eachTransaction(_, _, _, _, _, _, _)
eachTransaction(block, i, timestamp, action, current, ops, env) ==
    IF i > Len(block.transactions)
    THEN [err |-> FALSE, ops |-> ops, cur |-> current]
    ELSE LET txid == block.transactions[i]
             iv == getInputValues(txid, current, env.st, env.prefix)
             tx == [id |-> txid, height |-> block.height,
                    timestamp |-> timestamp, inputValues |-> iv.values]
         IN IF iv.err
            THEN [err |-> TRUE, ops |-> ops, cur |-> current]
            ELSE eachTransaction(block, i + 1, timestamp, action,
                    Put(current, txid, tx),
                    Append(ops, [type |-> action,
                                 key |-> encodeTransactionKey(env.prefix, txid),
                                 value |-> encodeTransactionValue(tx)]),
                    env)

\* TransactionService.prototype.blockHandler: currentTransactions is emptied,
\* the timestamp service is asked for the block's timestamp (tsErr: it
\* answers with an error), then the transactions are handled in order.
\* Gives the error flag, the ops and the new currentTransactions.
blockHandler(block, connectBlock, tsErr, st, prefix) ==
    IF tsErr
    THEN [err |-> TRUE, ops |-> << >>, cur |-> EmptyStore]
    ELSE eachTransaction(block, 1, BlockTimestamp[block.hash],
                         HandlerAction(connectBlock), EmptyStore, << >>,
                         [st |-> st, prefix |-> prefix])

-----------------------------------------------------------------------------
(* The other indexers, by the plugin contract *)

\* The timestamp service's blockHandler: one op under its prefix.
timestampBlockHandler(block, connectBlock, prefix) ==
    << [type |-> IF connectBlock THEN "put" ELSE "del",
        key |-> prefix \o << "ts:" \o block.hash >>,
        value |-> << BlockTimestamp[block.hash] >>] >>

\* The address service's concurrentBlockHandler: one op under its prefix.
addressConcurrentBlockHandler(block, connectBlock, prefix) ==
    << [type |-> IF connectBlock THEN "put" ELSE "del",
        key |-> prefix \o << "addr:" \o block.hash >>,
        value |-> writeUInt32BE(block.height)] >>

\* node.services in start order once all are started.
ServiceOrder == << "timestamp", "address", "transaction" >>

\* The services that implement concurrentBlockHandler / blockHandler.
HasConcurrentHandler(service) == service = "address"

HasBlockHandler(service) == service \in {"timestamp", "transaction"}

-----------------------------------------------------------------------------
(* Memory of the process *)

\* this.tip = null
NoTip == [hash |-> "", height |-> 0]

NoBlock == [hash |-> "", prevHash |-> << >>, height |-> 0, transactions |-> << >>]

IdleApply == [pc |-> "idle", block |-> NoBlock, add |-> TRUE, caller |-> "",
              pending |-> {}, serial |-> << >>, idx |-> 0,
              operations |-> << >>, batches |-> << >>, err |-> FALSE,
              late |-> FALSE]

\* No error; an Error is known by what it is about and, for the version
\* error, by the two versions its message carries.
NoError == [name |-> "", version |-> 0, expected |-> 0]

\* DB.start is not running.  called counts the calls of its callback, err is
\* the error it was called with, snap the store DB.start found.
OffBoot == [pc |-> "off", times |-> 0, hash |-> "", height |-> 0, idx |-> 0,
            called |-> 0, err |-> NoError, snap |-> EmptyStore]

NoNode == [services |-> << >>, prefix |-> [s \in ServiceNames |-> << >>],
           stopping |-> FALSE]

\* A DB that was constructed: no tip loaded, no reorg, the store not closed;
\* nothing has assigned bitcoindSyncing, which DB.stop reads.
NoDb == [tip |-> NoTip, concurrentTip |-> NoTip, reorg |-> FALSE,
         closed |-> FALSE, bitcoindSyncing |-> FALSE]

IdleReorg == [pc |-> "idle", suffix |-> << >>]

\* The transactions the upstream node may hold in its mempool.
MempoolTxIds == {"m1", "m2", "m3"}

\* A transaction service that was constructed: this._mempool = {}, start not
\* called (pc), no bus subscription; upstream is the upstream node's mempool.
NoMempool == [pc |-> "off", subscribed |-> FALSE,
              entries |-> [t \in MempoolTxIds |-> "undefined"],
              upstream |-> {}]

\* The emitters a bus may subscribe and the events of DB.getPublishEvents.
Emitters == {"e1", "e2", "e3"}

Topics == {"transaction", "block"}

\* this.subscriptions = { transaction: [], block: [] }
NoSubscriptions == [name \in Topics |-> << >>]

\* No record is being encoded.
NoCodec == [kind |-> "none", pc |-> "idle", record |-> << >>, buffer |-> << >>,
            back |-> << >>]

\* The memory of a process that is not running.
MemoryLost ==
    /\ calls' = [s \in ServiceNames |-> IdleCall]
    /\ boot' = OffBoot
    /\ node' = NoNode
    /\ db' = NoDb
    /\ sync' = "Idle"
    /\ rg' = IdleReorg
    /\ ap' = IdleApply
    /\ cur' = EmptyStore
    /\ mempool' = [NoMempool EXCEPT !.upstream = mempool.upstream]
    /\ subscriptions' = NoSubscriptions
    /\ UNCHANGED codec

\* A process that has just been started: var shuttingDown = false, no
\* node.stop call made (stops: who made the pending calls; stopped: the calls
\* that have called back), no exception handled, no exit (by: who made the
\* node.stop call whose callback exited, stopErr: with an error).
FreshProc == [shuttingDown |-> FALSE, stops |-> << >>, stopped |-> 0,
              exceptions |-> 0,
              exited |-> FALSE, code |-> 0, by |-> "", stopErr |-> FALSE]

NoCommit == [kind |-> "none", block |-> "", height |-> 0, tipBefore |-> << >>]

NoHistory == [connected |-> << >>, ever |-> {}, last |-> NoCommit,
              prev |-> NoCommit, before |-> EmptyStore, expect |-> EmptyStore,
              hops |-> << >>, nbatch |-> 0, herr |-> FALSE]

-----------------------------------------------------------------------------
(* DB.prototype.connectBlock and DB.prototype.disconnectBlock *)

Range(seq) == {seq[i] : i \in 1..Len(seq)}

\* mutant of connectBatches: the tip updates go to the store in a batch of
\* their own
connectBatches_Split(operations, tipOps) == << operations, tipOps >>

\* connectBlock: operations.push(tip op), operations.push(concurrent tip op),
\* store.batch(operations): the store.batch calls the apply makes
connectBatches(operations, tipOps) == << operations \o tipOps >>

\* mutant of disconnectBatches: the tip updates go to the store first, in a
\* batch of their own
disconnectBatches_Split(operations, tipOps) == << tipOps, operations >>

\* disconnectBlock: the same for a disconnect
disconnectBatches(operations, tipOps) == << operations \o tipOps >>

TipOps(block, add) ==
    << getTipOperation(block, add), getConcurrentTipOperation(block, add) >>

\* Every handler has called back without an error: the tip operations are
\* built (writeUInt32BE throws on a negative height) and the batch is
\* submitted.
submitBatch(a) ==
    IF WriteUInt32Throws(TipOperationHeight(a.block, a.add))
    THEN [a EXCEPT !.pc = "thrown"]
    ELSE [a EXCEPT !.pc = "batch",
                   !.late = db.closed,
                   !.batches = IF a.add
                               THEN connectBatches(a.operations, TipOps(a.block, a.add))
                               ELSE disconnectBatches(a.operations, TipOps(a.block, a.add))]

\* mutant of advance: the blockHandlers do not wait for the concurrent
\* handlers
advance_NoJoin(a) ==
    LET i == IF a.pc = "concurrent" THEN 1 ELSE a.idx + 1
    IN IF i <= Len(a.serial)
       THEN [a EXCEPT !.pc = "serial", !.idx = i]
       ELSE submitBatch(a)

\* The next step of an apply after a handler called back without an error:
\* the concurrent handlers are awaited together (async.each), then the
\* blockHandlers run one after the other (async.eachSeries), then the batch.
advance(a) ==
    IF a.pc = "concurrent" /\ a.pending # {}
    THEN a
    ELSE LET i == IF a.pc = "concurrent" THEN 1 ELSE a.idx + 1
         IN IF i <= Len(a.serial)
            THEN [a EXCEPT !.pc = "serial", !.idx = i]
            ELSE submitBatch(a)

\* mutant of onHandlerError: the error of a handler is dropped and the apply
\* goes on
onHandlerError_Ignore(a, service) ==
    advance([a EXCEPT !.pending = @ \ {service}])

\* if (err) { return next(err); } ... if (err) { return callback(err); }: the
\* error of a handler goes to the caller of connectBlock / disconnectBlock
onHandlerError(a, service) == [a EXCEPT !.pc = "settled", !.err = TRUE]

\* connectBlock(block, callback) / disconnectBlock(block, callback) is called:
\* getConcurrentBlockOperations calls every registered service's
\* concurrentBlockHandler.
beginApply(block, add, caller) ==
    advance([pc |-> "concurrent", block |-> block, add |-> add, caller |-> caller,
             pending |-> {s \in Range(node.services) : HasConcurrentHandler(s)},
             serial |-> SelectSeq(node.services, HasBlockHandler),
             idx |-> 0, operations |-> << >>, batches |-> << >>, err |-> FALSE,
             late |-> FALSE])

\* History: what the store has to be when the apply a has committed, from the
\* ops its handlers gave.
noteOps(h, ops, a) ==
    LET h1 == [h EXCEPT !.hops = @ \o ops]
    IN IF a.pc = "batch"
       THEN [h1 EXCEPT !.expect = ApplyOps(h1.before, h1.hops \o TipOps(a.block, a.add))]
       ELSE h1

noteBegin(h, a) ==
    noteOps([h EXCEPT !.before = store, !.expect = store, !.hops = << >>,
                      !.nbatch = 0, !.herr = FALSE],
            << >>, a)

\* A service's concurrentBlockHandler calls back with its ops.
concurrentBlockHandler(service) ==
    /\ alive
    /\ ap.pc = "concurrent"
    /\ service \in ap.pending
    /\ LET ops == addressConcurrentBlockHandler(ap.block, ap.add, node.prefix[service])
           a == advance([ap EXCEPT !.pending = @ \ {service},
                                   !.operations = @ \o ops])
       IN /\ ap' = a
          /\ hist' = noteOps(hist, ops, a)
          /\ alive' = (a.pc # "thrown")
    /\ UNCHANGED << store, crashes, serviceVars, proc, prefixVars, boot, node, db, sync, rg, cur, upTip >>

\* A service's concurrentBlockHandler calls back with an error.
concurrentBlockHandlerError(service) ==
    /\ alive
    /\ ap.pc = "concurrent"
    /\ service \in ap.pending
    /\ ap' = onHandlerError(ap, service)
    /\ hist' = noteOps([hist EXCEPT !.herr = TRUE], << >>, ap')
    /\ alive' = (ap'.pc # "thrown")
    /\ UNCHANGED << store, crashes, serviceVars, proc, prefixVars, boot, node, db, sync, rg, cur, upTip >>

\* The blockHandler of the service whose turn it is calls back with its ops.
serialBlockHandler ==
    /\ alive
    /\ ap.pc = "serial"
    /\ LET service == ap.serial[ap.idx]
           res == IF service = "transaction"
                  THEN blockHandler(ap.block, ap.add, FALSE, store,
                                    node.prefix[service])
                  ELSE [err |-> FALSE,
                        ops |-> timestampBlockHandler(ap.block, ap.add,
                                                      node.prefix[service]),
                        cur |-> cur]
       IN IF res.err
          THEN /\ ap' = onHandlerError(ap, service)
               /\ hist' = noteOps([hist EXCEPT !.herr = TRUE], << >>, ap')
               /\ alive' = (ap'.pc # "thrown")
               /\ cur' = res.cur
          ELSE LET a == advance([ap EXCEPT !.operations = @ \o res.ops])
               IN /\ ap' = a
                  /\ hist' = noteOps(hist, res.ops, a)
                  /\ alive' = (a.pc # "thrown")
                  /\ cur' = res.cur
    /\ UNCHANGED << store, crashes, serviceVars, proc, prefixVars, boot, node, db, sync, rg, upTip >>

\* The blockHandler of the service whose turn it is calls back with an error:
\* the timestamp service fails, or the transaction service is given an error
\* by the timestamp service.
serialBlockHandlerError ==
    /\ alive
    /\ ap.pc = "serial"
    /\ LET service == ap.serial[ap.idx]
       IN /\ ap' = onHandlerError(ap, service)
          /\ hist' = noteOps([hist EXCEPT !.herr = TRUE], << >>, ap')
          /\ alive' = (ap'.pc # "thrown")
          /\ cur' = IF service = "transaction"
                    THEN blockHandler(ap.block, ap.add, TRUE, store,
                                      node.prefix[service]).cur
                    ELSE cur
    /\ UNCHANGED << store, crashes, serviceVars, proc, prefixVars, boot, node, db, sync, rg, upTip >>

\* History of a commit: the chain of connected blocks and the last two commits.
noteCommit(h, a) ==
    [h EXCEPT !.nbatch = @ + 1,
              !.connected = IF a.add THEN Append(@, a.block.hash)
                            ELSE SelectSeq(@, LAMBDA b : b # a.block.hash),
              !.ever = IF a.add THEN @ \cup {a.block.hash} ELSE @,
              !.prev = h.last,
              !.last = [kind |-> IF a.add THEN "connect" ELSE "disconnect",
                        block |-> a.block.hash, height |-> a.block.height,
                        tipBefore |-> IF Has(h.before, TipKey)
                                      THEN h.before[TipKey] ELSE << >>]]

\* store.batch(operations): the store commits the batch, all ops or none.
storeBatch ==
    /\ alive
    /\ ap.pc = "batch"
    /\ ~ap.late
    /\ store' = ApplyOps(store, Head(ap.batches))
    /\ ap' = IF Len(ap.batches) = 1
             THEN [ap EXCEPT !.pc = "settled", !.batches = << >>]
             ELSE [ap EXCEPT !.batches = Tail(@)]
    /\ hist' = IF Len(ap.batches) = 1
               THEN noteCommit(hist, ap)
               ELSE [hist EXCEPT !.nbatch = @ + 1]
    /\ UNCHANGED << alive, crashes, serviceVars, proc, prefixVars, boot, node, db, sync, rg, cur, upTip >>

\* store.batch calls back with an error: nothing was written.
storeBatchError ==
    /\ alive
    /\ ap.pc = "batch"
    /\ ap' = [ap EXCEPT !.pc = "settled", !.err = TRUE, !.batches = << >>]
    /\ hist' = [hist EXCEPT !.nbatch = @ + 1]
    /\ UNCHANGED << store, alive, crashes, serviceVars, proc, prefixVars, boot, node, db, sync, rg,
                    cur, upTip >>

-----------------------------------------------------------------------------
(* DB.prototype.start *)

\* async.retry({times: 3, ...})
RetryTimes == 3

\* bitcoind.getBlock(hash) has the block.
UpstreamHasBlock(hash) == hash \in Blocks

\* _checkVersion: the version of the store; the initial version (1) of the
\* database didn't store the version number.
StoredVersion(st) ==
    IF Has(st, VersionKey) THEN readUInt32BE(st[VersionKey], 0) ELSE 1

\* mutant of VersionMismatch: every store passes the version check
VersionMismatch_Never(st) == FALSE

\* _checkVersion calls back with an error: the store has a tip and
\* self.version !== version.
VersionMismatch(st) == Has(st, TipKey) /\ StoredVersion(st) # version

\* The callback of DB.start is called with an error.
startFailed(b, err) ==
    [b EXCEPT !.pc = "failed", !.called = @ + 1, !.err = err]

\* DB.prototype._checkVersion: a store without a tip is new; otherwise the
\* stored version, 1 when there is none, has to be this.version.  The error
\* ends the async.series of DB.start.
checkVersion ==
    /\ alive
    /\ boot.pc = "checkVersion"
    /\ boot' = IF VersionMismatch(store)
               THEN startFailed(boot, [name |-> "version",
                                       version |-> StoredVersion(store),
                                       expected |-> version])
               ELSE [boot EXCEPT !.pc = "setVersion"]
    /\ UNCHANGED << store, alive, crashes, serviceVars, proc, prefixVars, node, db, sync, rg, ap,
                    cur, upTip, hist >>

\* mutant of VersionBuffer: the buffer is stored as it was allocated
VersionBuffer_Zero == << 0, 0, 0, 0 >>

\* _setVersion: versionBuffer.writeUInt32BE(this.version)
VersionBuffer == writeUInt32BE(version)

\* DB.prototype._setVersion
setVersion ==
    /\ alive
    /\ boot.pc = "setVersion"
    /\ store' = Put(store, VersionKey, VersionBuffer)
    /\ boot' = [boot EXCEPT !.pc = "loadTip"]
    /\ UNCHANGED << alive, crashes, serviceVars, proc, prefixVars, node, db, sync, rg, ap, cur,
                    upTip, hist >>

\* DB.prototype.loadTip, the callback of store.get(tip): without a tip record
\* the tip is genesis at height 0 and genesis is connected; with one, its
\* hash and height are decoded and the block is asked from the upstream node.
loadTip ==
    /\ alive
    /\ boot.pc = "loadTip"
    /\ IF ~Has(store, TipKey)
       THEN /\ db' = [db EXCEPT !.tip = [hash |-> genesis, height |-> 0]]
            /\ ap' = beginApply(BlockAt(genesis, 0), TRUE, "loadTip")
            /\ hist' = noteBegin(hist, ap')
            /\ boot' = [boot EXCEPT !.pc = "genesis"]
       ELSE /\ boot' = [boot EXCEPT !.pc = "getTip", !.times = 0,
                                    !.hash = TipHash(store[TipKey]),
                                    !.height = TipHeight(store[TipKey])]
            /\ UNCHANGED << db, ap, hist >>
    /\ UNCHANGED << store, alive, crashes, serviceVars, proc, prefixVars, node, sync, rg, cur, upTip >>

\* loadTip, the callback of connectBlock(genesis)
loadTipConnected ==
    /\ alive
    /\ ap.pc = "settled"
    /\ ap.caller = "loadTip"
    /\ boot' = IF ap.err
               THEN startFailed(boot, [NoError EXCEPT !.name = "connectBlock"])
               ELSE [boot EXCEPT !.pc = "loadConcurrentTip"]
    /\ ap' = IdleApply
    /\ UNCHANGED << store, alive, crashes, serviceVars, proc, prefixVars, node, db, sync, rg, cur,
                    upTip, hist >>

\* mutant of LoadedTip: the block is taken without the stored height
LoadedTip_NoHeight(hash, height) == [hash |-> hash, height |-> 0]

\* tip.__height = height; self.tip = tip
LoadedTip(hash, height) == [hash |-> hash, height |-> height]

\* loadTip, getBlock(hash) gives the block: it becomes the tip with the
\* stored height.
loadTipBlock ==
    /\ alive
    /\ boot.pc = "getTip"
    /\ UpstreamHasBlock(boot.hash)
    /\ db' = [db EXCEPT !.tip = LoadedTip(boot.hash, boot.height)]
    /\ boot' = [boot EXCEPT !.pc = "loadConcurrentTip"]
    /\ UNCHANGED << store, alive, crashes, serviceVars, proc, prefixVars, node, sync, rg, ap, cur,
                    upTip, hist >>

\* loadTip, getBlock(hash) gives an error: the third error ends DB.start.
loadTipError ==
    /\ alive
    /\ boot.pc = "getTip"
    /\ boot' = IF boot.times + 1 >= RetryTimes
               THEN startFailed([boot EXCEPT !.times = @ + 1],
                                [NoError EXCEPT !.name = "getBlock(tip)"])
               ELSE [boot EXCEPT !.times = @ + 1]
    /\ UNCHANGED << store, alive, crashes, serviceVars, proc, prefixVars, node, db, sync, rg, ap,
                    cur, upTip, hist >>

\* DB.prototype.loadConcurrentTip, the callback of store.get(concurrentTip):
\* without a record the concurrent tip is genesis and the function returns
\* without calling back.
loadConcurrentTip ==
    /\ alive
    /\ boot.pc = "loadConcurrentTip"
    /\ IF ~Has(store, ConcurrentTipKey)
       THEN /\ db' = [db EXCEPT !.concurrentTip = [hash |-> genesis, height |-> 0]]
            /\ boot' = [boot EXCEPT !.pc = "hung"]
       ELSE /\ boot' = [boot EXCEPT !.pc = "getConcurrentTip", !.times = 0,
                                    !.hash = TipHash(store[ConcurrentTipKey]),
                                    !.height = TipHeight(store[ConcurrentTipKey])]
            /\ UNCHANGED db
    /\ UNCHANGED << store, alive, crashes, serviceVars, proc, prefixVars, node, sync, rg, ap, cur,
                    upTip, hist >>

\* loadConcurrentTip, getBlock(hash) gives the block: DB.start calls back and
\* the node starts the next services.
loadConcurrentTipBlock ==
    /\ alive
    /\ boot.pc = "getConcurrentTip"
    /\ UpstreamHasBlock(boot.hash)
    /\ db' = [db EXCEPT !.concurrentTip = LoadedTip(boot.hash, boot.height)]
    /\ boot' = [boot EXCEPT !.pc = "services", !.idx = 1, !.called = @ + 1]
    /\ UNCHANGED << store, alive, crashes, serviceVars, proc, prefixVars, node, sync, rg, ap, cur,
                    upTip, hist >>

\* loadConcurrentTip, getBlock(hash) gives an error.
loadConcurrentTipError ==
    /\ alive
    /\ boot.pc = "getConcurrentTip"
    /\ boot' = IF boot.times + 1 >= RetryTimes
               THEN startFailed([boot EXCEPT !.times = @ + 1],
                                [NoError EXCEPT !.name = "getBlock(concurrentTip)"])
               ELSE [boot EXCEPT !.times = @ + 1]
    /\ UNCHANGED << store, alive, crashes, serviceVars, proc, prefixVars, node, db, sync, rg, ap,
                    cur, upTip, hist >>

-----------------------------------------------------------------------------
(* The start of the indexers *)

\* The node registers the next service and calls its start, which calls
\* db.getPrefix(self.name).
startService ==
    /\ boot.pc = "services"
    /\ boot.idx <= Len(ServiceOrder)
    /\ calls[ServiceOrder[boot.idx]].pc = "idle"
    /\ callGetPrefix(ServiceOrder[boot.idx])
    /\ node' = [node EXCEPT !.services = Append(@, ServiceOrder[boot.idx])]
    /\ UNCHANGED << store, alive, crashes, serviceVars, proc, returned, lastCall, boot, db, sync,
                    rg, ap, cur, upTip, hist >>

\* TransactionService.prototype.start, the callback of db.getPrefix:
\* self.prefix = prefix; after the last service the node is ready.
serviceStarted ==
    /\ alive
    /\ boot.pc = "services"
    /\ boot.idx <= Len(ServiceOrder)
    /\ calls[ServiceOrder[boot.idx]].pc = "done"
    /\ node' = [node EXCEPT !.prefix[ServiceOrder[boot.idx]] =
                                calls[ServiceOrder[boot.idx]].buffer]
    /\ calls' = [calls EXCEPT ![ServiceOrder[boot.idx]] = IdleCall]
    /\ boot' = IF boot.idx = Len(ServiceOrder)
               THEN [boot EXCEPT !.pc = "ready"]
               ELSE [boot EXCEPT !.idx = @ + 1]
    /\ UNCHANGED << store, alive, crashes, serviceVars, proc, returned, lastCall, db, sync, rg, ap,
                    cur, upTip, hist >>

-----------------------------------------------------------------------------
(* The sync driver *)

\* The block of the upstream node's active chain at a height.
UpstreamBlockAt(height) == ChainTo(upTip)[height + 1]

\* mutant of IsChildOfTip: every block the upstream node serves is taken
IsChildOfTip_Any(b, tip) == TRUE

\* The block's header.prevHash is the hash of the local tip.
IsChildOfTip(b, tip) == BufferReverse(HeaderPrevHash(b)) = HexBytes[tip.hash]

\* mutant of SyncLockHeld: the driver does not look at the reorg flag
SyncLockHeld_Never == FALSE

\* The driver does not start while DB's reorg handler is running: the
\* handler holds this.reorg from the 'reorg' event to the callback of
\* handleReorg.
SyncLockHeld == db.reorg

\* The driver is waiting for the callback of its connectBlock.
DriverAwaits == ap.pc # "idle" /\ ap.caller = "sync"

\* handleReorg is waiting for the callback of its disconnectBlock.
ReorgAwaits == ap.pc # "idle" /\ ap.caller = "reorg"

\* node 'ready' (initialSync) or bitcoind 'tip' (sync): the driver leaves
\* Idle when the local tip is not the upstream tip, unless a reorg is running.
syncTick ==
    /\ alive
    /\ boot.pc = "ready"
    /\ sync = "Idle"
    /\ ~SyncLockHeld
    /\ db.tip.hash # upTip
    /\ sync' = "Syncing"
    /\ UNCHANGED << store, alive, crashes, serviceVars, proc, prefixVars, boot, node, db, rg, ap,
                    cur, upTip, hist >>

\* Syncing: the local tip is the upstream tip.
syncSynced ==
    /\ alive
    /\ sync = "Syncing"
    /\ ~DriverAwaits
    /\ db.tip.hash = upTip
    /\ sync' = "Idle"
    /\ UNCHANGED << store, alive, crashes, serviceVars, proc, prefixVars, boot, node, db, rg, ap,
                    cur, upTip, hist >>

\* Syncing: the upstream block at the next height is a child of the local
\* tip and is connected.
syncConnect ==
    /\ alive
    /\ sync = "Syncing"
    /\ ~DriverAwaits
    /\ db.tip.hash # upTip
    /\ db.tip.height + 1 <= ChainHeight(upTip)
    /\ IsChildOfTip(UpstreamBlockAt(db.tip.height + 1), db.tip)
    /\ ap' = beginApply(BlockAt(UpstreamBlockAt(db.tip.height + 1), db.tip.height + 1),
                        TRUE, "sync")
    /\ hist' = noteBegin(hist, ap')
    /\ UNCHANGED << store, alive, crashes, serviceVars, proc, prefixVars, boot, node, db, sync, rg,
                    cur, upTip >>

\* Syncing: the upstream block at the next height is no child of the local
\* tip.  The driver emits 'reorg'; DB's handler sets this.reorg and calls
\* reorg.handleReorg.
syncReorg ==
    /\ alive
    /\ sync = "Syncing"
    /\ ~DriverAwaits
    /\ db.tip.hash # upTip
    /\ db.tip.height + 1 <= ChainHeight(upTip)
    /\ ~IsChildOfTip(UpstreamBlockAt(db.tip.height + 1), db.tip)
    /\ db' = [db EXCEPT !.reorg = TRUE]
    /\ rg' = [pc |-> "walk", suffix |-> << >>]
    /\ sync' = "Idle"
    /\ UNCHANGED << store, alive, crashes, serviceVars, proc, prefixVars, boot, node, ap, cur,
                    upTip, hist >>

\* The callback of connectBlock in the driver: the tip advances; an error is
\* fatal, the node is asked to stop.
syncConnected ==
    /\ alive
    /\ ap.pc = "settled"
    /\ ap.caller = "sync"
    /\ IF ap.err
       THEN /\ node' = [node EXCEPT !.stopping = TRUE]
            /\ sync' = "Stopping"
            /\ UNCHANGED db
       ELSE /\ db' = [db EXCEPT
                        !.tip = [hash |-> ap.block.hash, height |-> ap.block.height],
                        !.concurrentTip = [hash |-> ap.block.hash,
                                           height |-> ap.block.height]]
            /\ UNCHANGED << node, sync >>
    /\ ap' = IdleApply
    /\ UNCHANGED << store, alive, crashes, serviceVars, proc, prefixVars, boot, rg, cur, upTip, hist >>

-----------------------------------------------------------------------------
(* The reorg handler *)

\* DB.prototype.getPrevHash: prevHash of the upstream node's block index
getPrevHash(blockHash) == ParentOf[blockHash]

\* The local blocks from b back to the first block of the upstream node's
\* active chain, most recent first.
RECURSIVE LocalSuffix(_)
LocalSuffix(b) ==
    IF b \in Range(ChainTo(upTip)) THEN << >>
    ELSE << b >> \o LocalSuffix(getPrevHash(b))

\* The order in which handleReorg disconnects the suffix it collected.
DisconnectOrder(suffix) == suffix

\* handleReorg, step 1: the local suffix is collected.
reorgWalk ==
    /\ alive
    /\ rg.pc = "walk"
    /\ rg' = [pc |-> "disconnect", suffix |-> DisconnectOrder(LocalSuffix(db.tip.hash))]
    /\ UNCHANGED << store, alive, crashes, serviceVars, proc, prefixVars, boot, node, db, sync, ap,
                    cur, upTip, hist >>

\* handleReorg, step 2: the next block of the suffix is disconnected.
reorgDisconnect ==
    /\ alive
    /\ rg.pc = "disconnect"
    /\ rg.suffix # << >>
    /\ ~ReorgAwaits
    /\ ap' = beginApply(BlockAt(Head(rg.suffix), db.tip.height), FALSE, "reorg")
    /\ hist' = noteBegin(hist, ap')
    /\ UNCHANGED << store, alive, crashes, serviceVars, proc, prefixVars, boot, node, db, sync, rg,
                    cur, upTip >>

\* The callback of disconnectBlock in handleReorg: the local tip becomes the
\* block's parent.  On an error handleReorg calls back with it and DB's
\* handler asks the node to stop: "Reorg failed!".
reorgDisconnected ==
    /\ alive
    /\ ap.pc = "settled"
    /\ ap.caller = "reorg"
    /\ IF ap.err
       THEN /\ node' = [node EXCEPT !.stopping = TRUE]
            /\ sync' = "Stopping"
            /\ rg' = IdleReorg
            /\ UNCHANGED db
       ELSE /\ db' = [db EXCEPT
                        !.tip = [hash |-> getPrevHash(ap.block.hash),
                                 height |-> ap.block.height - 1],
                        !.concurrentTip = [hash |-> getPrevHash(ap.block.hash),
                                           height |-> ap.block.height - 1]]
            /\ rg' = [rg EXCEPT !.suffix = Tail(@)]
            /\ UNCHANGED << node, sync >>
    /\ ap' = IdleApply
    /\ UNCHANGED << store, alive, crashes, serviceVars, proc, prefixVars, boot, cur, upTip, hist >>

\* mutant of ReorgedSync: the handler does not call sync
ReorgedSync_Stay(state) == state

\* self._sync.sync() in the callback of handleReorg: the driver, which has
\* been idle since it emitted 'reorg', goes back to Syncing unless it was
\* stopped.
ReorgedSync(state) == IF state = "Idle" THEN "Syncing" ELSE state

\* handleReorg, step 3: it calls back without an error; DB's handler clears
\* this.reorg and calls sync.
reorgDone ==
    /\ alive
    /\ rg.pc = "disconnect"
    /\ rg.suffix = << >>
    /\ ~ReorgAwaits
    /\ db' = [db EXCEPT !.reorg = FALSE]
    /\ rg' = IdleReorg
    /\ sync' = ReorgedSync(sync)
    /\ UNCHANGED << store, alive, crashes, serviceVars, proc, prefixVars, boot, node, ap, cur,
                    upTip, hist >>

-----------------------------------------------------------------------------
(* The upstream node *)

\* The upstream node's active chain grows, or it changes to a longer branch.
upstreamTip ==
    /\ \E b \in Blocks :
          /\ ChainHeight(b) > ChainHeight(upTip)
          /\ upTip' = b
    /\ UNCHANGED << store, alive, crashes, serviceVars, proc, prefixVars, boot, node, db, sync, rg,
                    ap, cur, hist >>

-----------------------------------------------------------------------------
(* The process *)

\* The process stops at an arbitrary point: everything in memory is lost, the
\* store keeps what was written.
Crash ==
    /\ alive
    /\ crashes < MaxCrashes
    /\ alive' = FALSE
    /\ crashes' = crashes + 1
    /\ MemoryLost
    /\ UNCHANGED << store, returned, lastCall, upTip, hist, proc >>

\* The process is started again on the same data directory.
Restart ==
    /\ ~alive
    /\ alive' = TRUE
    /\ MemoryLost
    /\ UNCHANGED << store, crashes, proc, returned, lastCall, upTip, hist >>

\* start(options): the node is created and node.start starts the services;
\* DB.start begins with the version check.
nodeStart ==
    /\ ~alive
    /\ alive' = TRUE
    /\ calls' = [s \in ServiceNames |-> IdleCall]
    /\ boot' = [OffBoot EXCEPT !.pc = "checkVersion", !.snap = store]
    /\ node' = NoNode
    /\ db' = NoDb
    /\ sync' = "Idle"
    /\ rg' = IdleReorg
    /\ ap' = IdleApply
    /\ cur' = EmptyStore
    /\ UNCHANGED << store, crashes, serviceVars, returned, lastCall, upTip, hist >>
    /\ proc' = FreshProc

\* node.start called back with an error: cleanShutdown stops the node and the
\* process exits.
processExit ==
    /\ alive
    /\ boot.pc = "failed"
    /\ alive' = FALSE
    /\ MemoryLost
    /\ UNCHANGED << store, crashes, proc, returned, lastCall, upTip, hist >>

-----------------------------------------------------------------------------
(* The mempool of the transaction service *)

\* TransactionService.prototype.start: the bus is subscribed to
\* 'bitcoind/rawtransaction' and bitcoind.getMempool is called.
transactionStart ==
    /\ alive
    /\ mempool.pc = "off"
    /\ mempool' = [mempool EXCEPT !.pc = "getMempool", !.subscribed = TRUE]
    /\ UNCHANGED << store, alive, crashes, proc, subscriptions, codec, prefixVars >>
    /\ UNCHANGED engineVars

\* The upstream node takes a transaction into its mempool; a subscribed bus
\* gets 'bitcoind/rawtransaction' and the listener stores
\* new bitcore.Transaction(txHex) under tx.id.
rawtransaction(txid) ==
    /\ txid \notin mempool.upstream
    /\ mempool' = [mempool EXCEPT
                      !.upstream = @ \cup {txid},
                      !.entries[txid] = IF alive /\ mempool.subscribed
                                        THEN "Transaction" ELSE @]
    /\ UNCHANGED << store, alive, crashes, proc, subscriptions, codec, prefixVars >>
    /\ UNCHANGED engineVars

\* The callback of getMempool without an error: txs are the txids of the
\* upstream mempool, self._mempool[txs[i]] = true for each; the series goes
\* on with db.getPrefix(self.name).
getMempoolReply ==
    /\ alive
    /\ mempool.pc = "getMempool"
    /\ mempool' = [mempool EXCEPT
                      !.pc = "getPrefix",
                      !.entries = [t \in MempoolTxIds |->
                                     IF t \in mempool.upstream THEN "true" ELSE @[t]]]
    /\ callGetPrefix("transaction")
    /\ UNCHANGED << store, alive, crashes, proc, subscriptions, codec, returned, lastCall >>
    /\ UNCHANGED engineVars

\* The callback of getMempool with an error: start calls back with it.
getMempoolError ==
    /\ alive
    /\ mempool.pc = "getMempool"
    /\ mempool' = [mempool EXCEPT !.pc = "failed"]
    /\ UNCHANGED << store, alive, crashes, proc, subscriptions, codec, prefixVars >>
    /\ UNCHANGED engineVars

\* The callback of db.getPrefix in start: self.prefix = prefix, start calls
\* back.
transactionStarted ==
    /\ alive
    /\ mempool.pc = "getPrefix"
    /\ calls["transaction"].pc = "done"
    /\ mempool' = [mempool EXCEPT !.pc = "started"]
    /\ UNCHANGED << store, alive, crashes, proc, subscriptions, codec, prefixVars >>
    /\ UNCHANGED engineVars

\* TransactionService.prototype.getTransaction(txid, {queryMempool: true}):
\* what its callback is given.  currentTransactions first, then a truthy
\* self._mempool[txid] as it is, then the store.
getTransactionQueryMempool(txid) ==
    IF txid \in DOMAIN cur
    THEN [err |-> FALSE, value |-> "Transaction"]
    ELSE IF mempool.entries[txid] # "undefined"
    THEN [err |-> FALSE, value |-> mempool.entries[txid]]
    ELSE IF calls["transaction"].pc = "done"
            /\ Has(store, encodeTransactionKey(calls["transaction"].buffer, txid))
    THEN [err |-> FALSE, value |-> "Transaction"]
    ELSE [err |-> TRUE, value |-> "undefined"]

-----------------------------------------------------------------------------
(* The encoders and decoders of the persisted records *)

\* Heights a record is written with, up to the largest integer at hand.
CodecHeights == {0, 1, 255, 256, 65535, 65536, 16777216, 2147483647}

\* Numbers of inputs of a transaction.
InputCounts == {0, 1, 2, 8191, 8192}

\* The tip records and the transactions (with __height, __timestamp and
\* __inputValues set) that are given to the encoders.
CodecInputs ==
    [kind : {"tip"}, pc : {"input"},
     record : [hash : Blocks, height : CodecHeights],
     buffer : {<< >>}, back : {<< >>}]
    \cup
    [kind : {"transaction"}, pc : {"input"},
     record : {[id |-> id, height |-> h, timestamp |-> 7,
                inputValues |-> [i \in 1..n |-> i % 5]] :
                  id \in {"t1", "t2"}, h \in CodecHeights, n \in InputCounts},
     buffer : {<< >>}, back : {<< >>}]

\* getTipOperation(block, true).value for a tip record, and
\* _encodeTransactionValue(transaction), whose
\* writeUInt16BE(inputValues.length * 8) throws when the byte length does not
\* fit 16 bits.
encodeRecord ==
    /\ codec.pc = "input"
    /\ codec' =
          IF codec.kind = "tip"
          THEN [codec EXCEPT
                  !.pc = "encoded",
                  !.buffer = getTipOperation(BlockAt(codec.record.hash,
                                                     codec.record.height),
                                             TRUE).value]
          ELSE IF WriteUInt16Throws(Len(codec.record.inputValues) * 8)
          THEN [codec EXCEPT !.pc = "thrown"]
          ELSE [codec EXCEPT !.pc = "encoded",
                             !.buffer = encodeTransactionValue(codec.record)]
    /\ UNCHANGED << store, alive, crashes, proc, mempool, subscriptions, prefixVars >>
    /\ UNCHANGED engineVars

\* loadTip's reading of tipData, and _decodeTransactionValue(buffer).
decodeRecord ==
    /\ codec.pc = "encoded"
    /\ codec' =
          [codec EXCEPT
             !.pc = "decoded",
             !.back = IF codec.kind = "tip"
                      THEN [hash |-> TipHash(codec.buffer),
                            height |-> TipHeight(codec.buffer)]
                      ELSE decodeTransactionValue(codec.buffer)]
    /\ UNCHANGED << store, alive, crashes, proc, mempool, subscriptions, prefixVars >>
    /\ UNCHANGED engineVars

-----------------------------------------------------------------------------
(* The exit handlers of the process *)

\* mutant of ExitCode: the process always exits with code 0
ExitCode_Zero(by, err) == 0

\* The code the callback of node.stop exits with: in exitHandler with an
\* uncaught exception _process.exit(-1); in cleanShutdown _process.exit(1)
\* when node.stop gave an error and _process.exit(0) otherwise.
ExitCode(by, err) ==
    IF by = "exception" THEN -1
    ELSE IF err THEN 1 ELSE 0

\* node.stop(callback) is called: the node emits 'stopping', on which DB
\* calls this._sync.stop(), and the services are being stopped.  p is the
\* state of the exit handlers at the call.
callNodeStop(by, p) ==
    /\ proc' = [p EXCEPT !.stops = Append(@, by)]
    /\ node' = [node EXCEPT !.stopping = TRUE]
    /\ sync' = "Stopping"

\* exitHandler({sigint: true}, _process, node): the first SIGINT starts
\* cleanShutdown, a later one finds shuttingDown set.
SIGINT ==
    /\ alive
    /\ IF ~proc.shuttingDown
       THEN callNodeStop("sigint", [proc EXCEPT !.shuttingDown = TRUE])
       ELSE UNCHANGED << proc, node, sync >>
    /\ UNCHANGED << store, alive, crashes, serviceVars, prefixVars, boot, db, rg, ap, cur,
                    upTip, hist >>

\* exitHandler({exit: true}, _process, node, err): an uncaught exception.
uncaughtException ==
    /\ alive
    /\ proc.exceptions < MaxExceptions
    /\ callNodeStop("exception", [proc EXCEPT !.exceptions = @ + 1])
    /\ UNCHANGED << store, alive, crashes, serviceVars, prefixVars, boot, db, rg, ap, cur,
                    upTip, hist >>

\* start: node.start called back with an error, cleanShutdown is called.
startFailedShutdown ==
    /\ alive
    /\ boot.pc = "failed"
    /\ boot' = [boot EXCEPT !.pc = "shutdown"]
    /\ callNodeStop("start", proc)
    /\ UNCHANGED << store, alive, crashes, serviceVars, prefixVars, db, rg, ap, cur, upTip,
                    hist >>

\* DB.stop, called by node.stop after 'stopping': async.whilst finds
\* self.bitcoindSyncing false and store.close is called.
dbStop ==
    /\ alive
    /\ node.stopping
    /\ ~db.closed
    /\ ~db.bitcoindSyncing
    /\ db' = [db EXCEPT !.closed = TRUE]
    /\ UNCHANGED << store, alive, crashes, serviceVars, proc, prefixVars, boot, node, sync,
                    rg, ap, cur, upTip, hist >>

\* A node.stop call calls back, without an error when the services were
\* stopped or with the error of a service that failed to stop, and its
\* callback calls _process.exit.
nodeStopCallback ==
    /\ alive
    /\ \E i \in 1..Len(proc.stops), err \in BOOLEAN :
          /\ err \/ db.closed
          /\ proc' = [proc EXCEPT !.stops = << >>,
                               !.stopped = @ + 1,
                               !.exited = TRUE,
                               !.code = ExitCode(proc.stops[i], err),
                               !.by = proc.stops[i],
                               !.stopErr = err]
    /\ alive' = FALSE
    /\ MemoryLost
    /\ UNCHANGED << store, crashes, returned, lastCall, upTip, hist >>

-----------------------------------------------------------------------------
(* Specifications of the key allocator *)

\* A store in which every prefix below nextUnused has been given to a service
\* that is not asked for again: a fresh store, or one close to exhaustion.
InitPrefixStores ==
    { EmptyStore, Put(EmptyStore, NextUnusedKey, writeUInt16BE(UInt16Max - 1)) }

InitMemory ==
    /\ crashes = 0
    /\ calls = [s \in ServiceNames |-> IdleCall]
    /\ returned = [s \in ServiceNames |-> {}]
    /\ lastCall = NoCall
    /\ boot = OffBoot
    /\ node = NoNode
    /\ db = NoDb
    /\ sync = "Idle"
    /\ rg = IdleReorg
    /\ ap = IdleApply
    /\ cur = EmptyStore
    /\ hist = NoHistory
    /\ proc = FreshProc
    /\ mempool = NoMempool
    /\ subscriptions = NoSubscriptions
    /\ codec = NoCodec

InitPrefix ==
    /\ store \in InitPrefixStores
    /\ alive = TRUE
    /\ upTip = genesis
    /\ InitMemory

InitPrefixFresh ==
    /\ store = EmptyStore
    /\ alive = TRUE
    /\ upTip = genesis
    /\ InitMemory

\* getPrefix calls one after the other, each run to its callback.
NextPrefix ==
    \E s \in ServiceNames :
        \/ DB_getPrefix(s)
        \/ getPrefix(s)
        \/ getUnused(s)
        \/ putPrefix(s)
        \/ putUnused(s)

SpecPrefix == InitPrefix /\ [][NextPrefix]_vars

\* The same calls with the process stopping and starting between any two steps.
NextPrefixCrash == NextPrefix \/ Crash \/ Restart

SpecPrefixCrash == InitPrefixFresh /\ [][NextPrefixCrash]_vars

\* Calls for distinct services at the same time, their store reads and
\* writes interleaved.
NextPrefixInterleaved ==
    \E s \in ServiceNames :
        \/ DB_getPrefixInterleaved(s)
        \/ getPrefix(s)
        \/ getUnused(s)
        \/ putPrefix(s)
        \/ putUnused(s)

SpecPrefixInterleaved == InitPrefixFresh /\ [][NextPrefixInterleaved]_vars

\* The calls one after the other, the process started again after an uncaught
\* exception has ended it (no other stop of the process).
NextPrefixExhaust == NextPrefix \/ Restart

SpecPrefixExhaust == InitPrefix /\ [][NextPrefixExhaust]_vars

-----------------------------------------------------------------------------
(* Specification of the engine *)

\* An empty data directory, the process not yet started; the upstream node
\* has some chain.
Init ==
    /\ store = EmptyStore
    /\ alive = FALSE
    /\ upTip \in {genesis, "P"}
    /\ InitMemory

\* The steps of a running node.
Run ==
    \/ nodeStart
    \/ checkVersion
    \/ setVersion
    \/ loadTip
    \/ loadTipConnected
    \/ loadTipBlock
    \/ loadTipError
    \/ loadConcurrentTip
    \/ loadConcurrentTipBlock
    \/ loadConcurrentTipError
    \/ startService
    \/ serviceStarted
    \/ \E s \in ServiceNames :
          \/ getPrefix(s)
          \/ getUnused(s)
          \/ putPrefix(s)
          \/ putUnused(s)
          \/ concurrentBlockHandler(s)
          \/ concurrentBlockHandlerError(s)
    \/ serialBlockHandler
    \/ serialBlockHandlerError
    \/ storeBatch
    \/ storeBatchError
    \/ syncTick
    \/ syncSynced
    \/ syncConnect
    \/ syncReorg
    \/ syncConnected
    \/ reorgWalk
    \/ reorgDisconnect
    \/ reorgDisconnected
    \/ reorgDone
    \/ upstreamTip
    \/ processExit

Next ==
    \/ Run
    \/ Crash

Spec == Init /\ [][Next]_vars

\* The steps the event loop takes when their callback is due: the steps of
\* the driver, of the reorg handler and of an apply that goes well.
Progress ==
    \/ syncTick
    \/ syncSynced
    \/ syncConnect
    \/ syncReorg
    \/ syncConnected
    \/ reorgWalk
    \/ reorgDisconnect
    \/ reorgDisconnected
    \/ reorgDone
    \/ \E s \in ServiceNames : concurrentBlockHandler(s)
    \/ storeBatch

\* The engine in a process that does not crash, with every due callback
\* eventually run and the blockHandler whose turn it is eventually calling
\* back.
SpecFair ==
    /\ Init
    /\ [][Run]_vars
    /\ WF_vars(Progress)
    /\ []<>~(alive /\ ap.pc = "serial")

-----------------------------------------------------------------------------
(* Specification of the start on a data directory that exists *)

\* The tip records of a store whose tip is genesis.
GenesisTips == ApplyOps(EmptyStore, TipOps(BlockAt(genesis, 0), TRUE))

\* The data directories DB.start may find: a new one; one written by the
\* initial version of the database, which stored no version; one with the
\* version record of version 1, of this version, or of a later version.
InitStartStores ==
    { EmptyStore,
      GenesisTips,
      Put(GenesisTips, VersionKey, writeUInt32BE(1)),
      Put(GenesisTips, VersionKey, writeUInt32BE(version)),
      Put(GenesisTips, VersionKey, writeUInt32BE(version + 1)) }

InitStart ==
    /\ store \in InitStartStores
    /\ alive = FALSE
    /\ upTip \in {genesis, "P"}
    /\ InitMemory

\* The start of the node up to 'ready', and its end when the start fails.
NextStart ==
    \/ nodeStart
    \/ checkVersion
    \/ setVersion
    \/ loadTip
    \/ loadTipConnected
    \/ loadTipBlock
    \/ loadTipError
    \/ loadConcurrentTip
    \/ loadConcurrentTipBlock
    \/ loadConcurrentTipError
    \/ storeBatch
    \/ storeBatchError
    \/ startService
    \/ serviceStarted
    \/ \E s \in ServiceNames :
          \/ getPrefix(s)
          \/ getUnused(s)
          \/ putPrefix(s)
          \/ putUnused(s)
    \/ processExit

SpecStart == InitStart /\ [][NextStart]_vars

\* A store of this version with a tip record and no concurrentTip record: the
\* case of the NotFound branch of loadConcurrentTip.
TipOnlyStore == Put(Put(EmptyStore, VersionKey, VersionBuffer), TipKey, GenesisTips[TipKey])

InitLoad ==
    /\ store \in InitStartStores \cup {TipOnlyStore}
    /\ alive = FALSE
    /\ upTip \in {genesis, "P"}
    /\ InitMemory

\* The start with its scheduling: a callback that is due is run by the event
\* loop, a store or upstream request that was issued gets its answer.
SpecLoadFair == InitLoad /\ [][NextStart]_vars /\ WF_vars(NextStart)

-----------------------------------------------------------------------------
(* Specification of the start and the exit of the process *)

\* The start of the node with SIGINT and uncaught exceptions at any moment.
NextExit ==
    \/ nodeStart
    \/ checkVersion
    \/ setVersion
    \/ loadTip
    \/ loadTipConnected
    \/ loadTipBlock
    \/ loadTipError
    \/ loadConcurrentTip
    \/ loadConcurrentTipBlock
    \/ loadConcurrentTipError
    \/ storeBatch
    \/ storeBatchError
    \/ startService
    \/ serviceStarted
    \/ \E s \in ServiceNames :
          \/ getPrefix(s)
          \/ getUnused(s)
          \/ putPrefix(s)
          \/ putUnused(s)
    \/ SIGINT
    \/ uncaughtException
    \/ startFailedShutdown
    \/ dbStop
    \/ nodeStopCallback

SpecExit == InitStart /\ [][NextExit]_vars

\* The engine with a SIGINT at any moment and the stop of the DB service, up
\* to the callback of node.stop.
NextStop ==
    \/ Next
    \/ SIGINT
    \/ dbStop

SpecStop == Init /\ [][NextStop]_vars

-----------------------------------------------------------------------------
(* Specification of the encoders and decoders *)

InitCodec ==
    /\ store = EmptyStore
    /\ alive = TRUE
    /\ upTip = genesis
    /\ crashes = 0
    /\ calls = [s \in ServiceNames |-> IdleCall]
    /\ returned = [s \in ServiceNames |-> {}]
    /\ lastCall = NoCall
    /\ boot = OffBoot
    /\ node = NoNode
    /\ db = NoDb
    /\ sync = "Idle"
    /\ rg = IdleReorg
    /\ ap = IdleApply
    /\ cur = EmptyStore
    /\ hist = NoHistory
    /\ proc = FreshProc
    /\ mempool = NoMempool
    /\ subscriptions = NoSubscriptions
    /\ codec \in CodecInputs

NextCodec ==
    \/ encodeRecord
    \/ decodeRecord

SpecCodec == InitCodec /\ [][NextCodec]_vars

-----------------------------------------------------------------------------
(* Specification of the start of the transaction service *)

\* The longest list of subscribers of an event.
MaxSubscriptions == 3

\* Array.prototype.indexOf: the index (from 0) of the first element equal to
\* emitter, -1 when there is none.
indexOf(list, emitter) ==
    IF \E i \in 1..Len(list) : list[i] = emitter
    THEN (CHOOSE i \in 1..Len(list) :
             /\ list[i] = emitter
             /\ \A j \in 1..(i - 1) : list[j] # emitter) - 1
    ELSE -1

\* Array.prototype.splice(index, 1): the element at index (from 0) is removed.
splice(list, index) ==
    SubSeq(list, 1, index) \o SubSeq(list, index + 2, Len(list))

\* DB.prototype.subscribe: this.subscriptions[name].push(emitter)
subscribe(name, emitter) ==
    /\ alive
    /\ Len(subscriptions[name]) < MaxSubscriptions
    /\ subscriptions' = [subscriptions EXCEPT ![name] = Append(@, emitter)]
    /\ UNCHANGED << store, alive, crashes, mempool, codec, proc, prefixVars,
                    engineVars >>

\* DB.prototype.unsubscribe: the element at indexOf(emitter) is spliced out
\* when indexOf finds one.
unsubscribe(name, emitter) ==
    /\ alive
    /\ LET index == indexOf(subscriptions[name], emitter)
       IN subscriptions' =
             IF index > -1
             THEN [subscriptions EXCEPT ![name] = splice(@, index)]
             ELSE subscriptions
    /\ UNCHANGED << store, alive, crashes, mempool, codec, proc, prefixVars,
                    engineVars >>

InitBus ==
    /\ store = EmptyStore
    /\ alive = TRUE
    /\ upTip = genesis
    /\ InitMemory

\* Buses subscribe to and unsubscribe from the two events of the database
\* service in any order.
NextBus ==
    \/ \E name \in Topics, emitter \in Emitters : subscribe(name, emitter)
    \/ \E name \in Topics, emitter \in Emitters : unsubscribe(name, emitter)

SpecBus == InitBus /\ [][NextBus]_vars

InitMempool ==
    /\ store = EmptyStore
    /\ alive = TRUE
    /\ upTip = genesis
    /\ InitMemory

\* The start of the transaction service while the upstream node takes
\* transactions into its mempool.
NextMempool ==
    \/ transactionStart
    \/ \E txid \in MempoolTxIds : rawtransaction(txid)
    \/ getMempoolReply
    \/ getMempoolError
    \/ getPrefix("transaction")
    \/ getUnused("transaction")
    \/ putPrefix("transaction")
    \/ putUnused("transaction")
    \/ transactionStarted

SpecMempool == InitMempool /\ [][NextMempool]_vars

-----------------------------------------------------------------------------
(* Properties of the block applier, the sync driver and the reorg handler *)

\* The keys the key allocator and the version guard own.
IsAllocatorKey(k) ==
    \/ k \in {VersionKey, NextUnusedKey}
    \/ \E s \in ServiceNames : k = PrefixKey(s)

\* What block applies write: the tip records and the indexer keys.
BlockView(st) == [k \in {j \in DOMAIN st : ~IsAllocatorKey(j)} |-> st[k]]

\* The tip, as loadTip decodes the record.
StoredTip(st) == [hash |-> TipHash(st[TipKey]), height |-> TipHeight(st[TipKey])]

StoredConcurrentTip(st) ==
    [hash |-> TipHash(st[ConcurrentTipKey]), height |-> TipHeight(st[ConcurrentTipKey])]

\* The record an apply found in the store as tip.
TipBefore(commit) ==
    [hash |-> TipHash(commit.tipBefore), height |-> TipHeight(commit.tipBefore)]

\* C1 (Spec): every op of the handlers and both tip updates of an apply go to
\* the store in one store.batch call: at every point, a stopped process and
\* the time after a restart included, the block records of the store are
\* those from before the apply or those with every op and the tip updates;
\* no apply calls store.batch twice, and when an apply has called back
\* without an error the store holds all of it.
C1_AtomicApply ==
    /\ BlockView(store) \in {BlockView(hist.before), BlockView(hist.expect)}
    /\ hist.nbatch <= 1
    /\ (ap.pc = "settled" /\ ~ap.err)
          => /\ hist.nbatch = 1
             /\ store = hist.expect

\* C1 witness: the process stopped while the batch of an apply with handler
\* ops was submitted and not yet committed; the store is as before the apply.
C1_Witness ==
    /\ ~alive
    /\ crashes > 0
    /\ hist.nbatch = 0
    /\ Len(hist.hops) >= 3
    /\ hist.expect # hist.before
    /\ store = hist.before

\* C2 (Spec): once a concurrentBlockHandler or a blockHandler has reported an
\* error, the apply makes no store.batch call, the store is the one from
\* before the apply, tip records included, and the apply has called back to
\* its caller with the error.
C2_HandlerErrorAborts ==
    hist.herr => /\ hist.nbatch = 0
                 /\ store = hist.before
                 /\ ap.pc \in {"idle", "settled"}
                 /\ ap.pc = "settled" => ap.err

\* C2 witness: a blockHandler reported an error on a disconnect after other
\* handlers had given their ops, and the caller has its error.
C2_Witness ==
    /\ hist.herr
    /\ ap.pc = "settled"
    /\ ap.err
    /\ ~ap.add
    /\ Len(ap.operations) >= 2

\* C3 (Spec): while the last commit is the connect of a block at height H,
\* the tip record and the concurrent tip record decode to that block's hash
\* and to H.
C3_TipAfterConnect ==
    hist.last.kind = "connect"
        => /\ StoredTip(store) = [hash |-> hist.last.block, height |-> hist.last.height]
           /\ StoredConcurrentTip(store) =
                  [hash |-> hist.last.block, height |-> hist.last.height]

\* C3 witness: a block at height 2 or more has been connected.
C3_Witness ==
    /\ hist.last.kind = "connect"
    /\ hist.last.height >= 2
    /\ ap.pc = "settled"

\* C4 (Spec): while the last commit is the disconnect of a block at height
\* H, the tip record decodes to the hash of the block's parent and to H - 1;
\* and whenever there is a tip record it names a block that has been
\* connected, the last one of the connected chain.
C4_TipAfterDisconnect ==
    /\ hist.last.kind = "disconnect"
          => StoredTip(store) = [hash |-> ParentOf[hist.last.block],
                                 height |-> hist.last.height - 1]
    /\ Has(store, TipKey)
          => /\ StoredTip(store).hash \in hist.ever
             /\ hist.connected # << >>
             /\ StoredTip(store).hash = hist.connected[Len(hist.connected)]

\* C4 witness: a block at height 3 has been disconnected.
C4_Witness ==
    /\ hist.last.kind = "disconnect"
    /\ hist.last.height = 3
    /\ ap.pc = "settled"

\* C5 (Spec): of two consecutive commits that are connects, the second
\* block's height is the first's plus 1 and its parent is the first block;
\* a block other than genesis is connected only when the tip record names
\* its parent, one height below, both when the apply starts and when it
\* commits.
C5_ChainOrder ==
    /\ (hist.last.kind = "connect" /\ hist.prev.kind = "connect")
          => /\ hist.last.height = hist.prev.height + 1
             /\ ParentOf[hist.last.block] = hist.prev.block
    /\ (hist.last.kind = "connect" /\ hist.last.block # genesis)
          => TipBefore(hist.last) = [hash |-> ParentOf[hist.last.block],
                                     height |-> hist.last.height - 1]
    /\ (ap.pc # "idle" /\ ap.add /\ ap.block.hash # genesis)
          => /\ Has(hist.before, TipKey)
             /\ StoredTip(hist.before) = [hash |-> ParentOf[ap.block.hash],
                                          height |-> ap.block.height - 1]

\* C5 witness: three blocks were connected one after the other while the
\* upstream node had moved to the other branch.
C5_Witness ==
    /\ hist.last.kind = "connect"
    /\ hist.prev.kind = "connect"
    /\ hist.last.block = "B3"
    /\ "A1" \in hist.ever

\* C6 (Spec): a block is disconnected only when the tip record names it, so
\* of two consecutive disconnects the second is of the first block's parent;
\* no disconnect calls store.batch twice; while the reorg handler runs no
\* connect is in flight, and a connect that follows a disconnect is of a
\* child of the block the last disconnect left as tip, with no block of the
\* suffix left to disconnect.
C6_ReorgOrder ==
    /\ hist.last.kind = "disconnect"
          => TipBefore(hist.last) = [hash |-> hist.last.block,
                                     height |-> hist.last.height]
    /\ (hist.last.kind = "disconnect" /\ hist.prev.kind = "disconnect")
          => hist.last.block = ParentOf[hist.prev.block]
    /\ (ap.pc # "idle" /\ ~ap.add)
          => /\ hist.nbatch <= 1
             /\ StoredTip(hist.before).hash = ap.block.hash
    /\ (rg.pc # "idle" \/ db.reorg) => (ap.pc = "idle" \/ ~ap.add)
    /\ (ap.pc # "idle" /\ ap.add /\ hist.last.kind = "disconnect")
          => /\ ParentOf[ap.block.hash] = ParentOf[hist.last.block]
             /\ rg.suffix = << >>

\* C6 witness: two blocks were disconnected one after the other and the
\* first block of the upstream branch is being connected.
C6_Witness ==
    /\ hist.last.kind = "disconnect"
    /\ hist.prev.kind = "disconnect"
    /\ ap.pc = "batch"
    /\ ap.add
    /\ ap.block.hash = "B1"

\* C12 (SpecStart): when DB.start found a store with a tip record whose
\* version record is not 2, or is missing, then from the version check on
\* DB.start has called back, once, with the error that carries the stored
\* version (1 when missing) and the version 2; the store is the one it
\* found, no apply was started, no getPrefix call made and no tip loaded.
C12_VersionGate ==
    (/\ boot.pc \notin {"off", "checkVersion"}
     /\ Has(boot.snap, TipKey)
     /\ Has(boot.snap, VersionKey) => boot.snap[VersionKey] # << 0, 0, 0, 2 >>)
        => /\ boot.pc = "failed"
           /\ boot.called = 1
           /\ boot.err = [name |-> "version",
                          version |-> IF Has(boot.snap, VersionKey)
                                      THEN readUInt32BE(boot.snap[VersionKey], 0)
                                      ELSE 1,
                          expected |-> 2]
           /\ store = boot.snap
           /\ ap = IdleApply
           /\ hist.nbatch = 0
           /\ \A s \in ServiceNames : calls[s] = IdleCall
           /\ db.tip = NoTip
           /\ db.concurrentTip = NoTip

\* C12 witness: DB.start has failed on a store with a tip and no version
\* record.
C12_Witness ==
    /\ boot.pc = "failed"
    /\ boot.err.name = "version"
    /\ boot.err.version = 1
    /\ Has(store, TipKey)
    /\ ~Has(store, VersionKey)

\* C13 (SpecStart): once DB.start has called back without an error on a
\* store it found empty, the version record is 2, the tip record and the
\* concurrent tip record decode to genesis at height 0, and this.tip and
\* this.concurrentTip are genesis with __height 0.
C13_FreshStart ==
    (boot.pc \in {"services", "ready"} /\ boot.snap = EmptyStore)
        => /\ boot.called = 1
           /\ boot.err = NoError
           /\ Has(store, VersionKey)
           /\ store[VersionKey] = << 0, 0, 0, 2 >>
           /\ Has(store, TipKey)
           /\ StoredTip(store) = [hash |-> genesis, height |-> 0]
           /\ Has(store, ConcurrentTipKey)
           /\ StoredConcurrentTip(store) = [hash |-> genesis, height |-> 0]
           /\ db.tip = [hash |-> genesis, height |-> 0]
           /\ db.concurrentTip = [hash |-> genesis, height |-> 0]

\* C13 witness: DB.start has just called back on a store it found empty.
C13_Witness ==
    /\ boot.pc = "services"
    /\ boot.idx = 1
    /\ node.services = << >>
    /\ boot.snap = EmptyStore
    /\ hist.last.kind = "connect"
    /\ hist.last.block = genesis

\* C14 (Spec): with a tip record in the store loadTip asks the upstream node
\* for the block at most 3 times; when the third attempt has failed DB.start
\* has called back, once, with that error, this.tip is not set, no apply was
\* started and the tip records and indexer keys are those DB.start found;
\* when an attempt gave the block, this.tip is the block the record names
\* with the height of the record.
C14_TipLoadRetry ==
    /\ boot.times <= 3
    /\ boot.pc = "getTip" => (boot.times < 3 /\ db.tip = NoTip)
    /\ (boot.pc = "failed" /\ boot.err.name = "getBlock(tip)")
          => /\ boot.times = 3
             /\ boot.called = 1
             /\ db.tip = NoTip
             /\ ap = IdleApply
             /\ BlockView(store) = BlockView(boot.snap)
    /\ (boot.pc \in {"loadConcurrentTip", "getConcurrentTip"} /\ Has(boot.snap, TipKey))
          => db.tip = StoredTip(boot.snap)

\* C14 witness: the store names a block above genesis as tip and three
\* attempts to get it have failed.
C14_Witness ==
    /\ boot.pc = "failed"
    /\ boot.err.name = "getBlock(tip)"
    /\ boot.times = 3
    /\ StoredTip(store).height >= 1

\* C15 (SpecLoadFair), the claim as stated: whenever loadConcurrentTip is
\* called, with or without a concurrentTip record in the store, the callback
\* of DB.start is invoked in the end, and it has been invoked once.
C15_StartCallsBack == (boot.pc = "loadConcurrentTip") ~> (boot.called = 1)

\* C16 (SpecExit): when the process has exited, a node.stop call had called
\* back and the exit was made by its callback: after a SIGINT with code 0
\* when node.stop gave no error and 1 when it gave one, after an uncaught
\* exception with code -1 in both cases; a process that was started and is
\* no longer running has exited this way.
C16_ExitSemantics ==
    /\ proc.exited
          => /\ proc.stopped >= 1
             /\ proc.by \in {"sigint", "exception", "start"}
             /\ proc.by = "sigint" => (/\ proc.shuttingDown
                                       /\ proc.code = IF proc.stopErr THEN 1 ELSE 0)
             /\ proc.by = "exception" => (proc.exceptions >= 1 /\ proc.code = -1)
             /\ (proc.exceptions = 0 /\ ~proc.stopErr) => proc.code = 0
             /\ (proc.exceptions = 0 /\ proc.stopErr) => proc.code = 1
             /\ (~proc.shuttingDown /\ proc.by # "start") => proc.code = -1
    /\ proc.exited => ~alive
    /\ (~alive /\ ~proc.exited) => proc = FreshProc
    /\ (alive /\ proc.stops # << >>) => ~proc.exited

\* C16 witness: the process has exited with code 1 after a SIGINT whose
\* node.stop gave an error, with no uncaught exception.
C16_Witness ==
    /\ proc.exited
    /\ proc.by = "sigint"
    /\ proc.stopErr
    /\ proc.code = 1
    /\ proc.exceptions = 0

\* C17 (SpecStop): once DB.stop has called store.close no batch of an apply
\* is pending: none was pending at the close and none is submitted after it.
C17_CloseAfterSettle ==
    db.closed => ap.pc # "batch"

\* C18 (Spec): only one apply is in flight.  The sync driver and the reorg
\* handler are never both at work, an apply in flight is the one its caller
\* waits for, and no step starts a connectBlock or a disconnectBlock while
\* the batch of the previous one has not settled and been called back; with
\* the reorg flag set the driver stays where it is, whatever the upstream
\* tip is.
C18_OneApplyInFlight ==
    /\ [](/\ ~(sync = "Syncing" /\ rg.pc # "idle")
          /\ rg.pc # "idle" => db.reorg
          /\ (ap.pc # "idle" /\ ap.caller = "sync") => (sync # "Idle" /\ ~db.reorg)
          /\ (ap.pc # "idle" /\ ap.caller = "reorg") => (rg.pc = "disconnect"
                                                        /\ sync # "Syncing")
          /\ (ap.pc # "idle" /\ ap.caller = "loadTip") => (sync = "Idle"
                                                          /\ rg.pc = "idle"))
    /\ [][/\ (ap.pc # "idle" /\ ap'.pc # "idle")
               => (/\ ap'.block = ap.block
                   /\ ap'.add = ap.add
                   /\ ap'.caller = ap.caller)
          /\ (db.reorg /\ db'.reorg) => (sync' = sync \/ sync' = "Stopping")]_vars

\* C18 witness: the batch of a disconnectBlock of the reorg handler is
\* pending while the node is ready and the local tip is not the upstream
\* tip: a `tip` event finds the reorg flag set and the driver stays Idle.
C18_Witness ==
    /\ alive
    /\ boot.pc = "ready"
    /\ db.reorg
    /\ ap.pc = "batch"
    /\ ap.caller = "reorg"
    /\ ~ap.add
    /\ sync = "Idle"
    /\ db.tip.hash # upTip

\* handleReorg has called back with an error in this process: the reorg flag
\* is set and the handler is not running.
ReorgFailed == alive /\ db.reorg /\ rg.pc = "idle"

\* C19 (SpecFair): when handleReorg succeeds the reorg flag is cleared and
\* the driver goes from idle back to Syncing in the same step, and from there
\* the local tip eventually is the upstream tip unless the node is stopped or
\* the process ends; when handleReorg fails the node is asked to stop, the
\* flag stays set, the driver stays in Stopping, and no apply starts and
\* nothing is written for as long as the process runs.
C19_ReorgOutcome ==
    /\ [][(db.reorg /\ ~db'.reorg /\ alive')
             => (/\ sync = "Idle"
                 /\ sync' = "Syncing"
                 /\ rg'.pc = "idle"
                 /\ rg.suffix = << >>)]_vars
    /\ [](ReorgFailed => (/\ node.stopping
                          /\ sync = "Stopping"
                          /\ ap.pc = "idle"))
    /\ [][ReorgFailed => (/\ ReorgFailed' \/ ~alive'
                          /\ store' = store
                          /\ ap' = ap \/ ~alive')]_vars
    /\ ((alive /\ boot.pc = "ready" /\ ~db.reorg /\ sync = "Syncing"
            /\ hist.last.kind = "disconnect")
          ~> (db.tip.hash = upTip \/ node.stopping \/ ~alive))

\* C19 witness: a process that connected A1 has handled the reorg to the
\* other branch and its tip is the upstream tip B3.
C19_Witness ==
    /\ alive
    /\ crashes = 0
    /\ "A1" \in hist.ever
    /\ upTip = "B3"
    /\ db.tip.hash = upTip
    /\ ~db.reorg
    /\ sync = "Idle"

\* C20 (Spec): within one apply no blockHandler is invoked while a
\* concurrentBlockHandler has not called back; the blockHandlers are those of
\* node.services in its order, the first is invoked first and each next one
\* when the one before it has called back, the ops gathered so far being
\* kept in front; the submitted batch is the handlers' ops followed by the
\* tip update and the concurrent tip update, and no handler op writes a tip.
C20_HandlerOrder ==
    /\ [](/\ ap.pc \in {"serial", "batch"} => ap.pending = {}
          /\ ap.pc \in {"concurrent", "serial", "batch"}
                => ap.serial = SelectSeq(node.services, HasBlockHandler)
          /\ ap.pc = "concurrent" => ap.idx = 0
          /\ ap.pc = "serial" => ap.idx \in 1..Len(ap.serial)
          /\ ap.pc = "batch"
                => /\ ap.idx = Len(ap.serial)
                   /\ Len(ap.batches) = 1
                   /\ LET batch == Head(ap.batches)
                          n == Len(batch)
                      IN /\ n = Len(ap.operations) + 2
                         /\ SubSeq(batch, 1, n - 2) = ap.operations
                         /\ batch[n - 1] = getTipOperation(ap.block, ap.add)
                         /\ batch[n] = getConcurrentTipOperation(ap.block, ap.add)
                         /\ \A i \in 1..(n - 2) :
                               batch[i].key \notin {TipKey, ConcurrentTipKey})
    /\ [][(ap' # ap /\ ap'.pc = "serial")
             => IF ap.pc = "serial"
                THEN /\ ap'.idx = ap.idx + 1
                     /\ Len(ap'.operations) >= Len(ap.operations)
                     /\ SubSeq(ap'.operations, 1, Len(ap.operations)) = ap.operations
                ELSE /\ ap'.idx = 1
                     /\ ap.pc \in {"idle", "concurrent"}]_vars

\* C20 witness: the batch of a connect by the driver is submitted after the
\* concurrent handler and both blockHandlers gave their ops.
C20_Witness ==
    /\ ap.pc = "batch"
    /\ ap.add
    /\ ap.caller = "sync"
    /\ Len(ap.serial) = 2
    /\ ap.idx = 2
    /\ Len(ap.operations) >= 3
    /\ Len(Head(ap.batches)) = Len(ap.operations) + 2

\* C21 (SpecMempool), the claim as stated: every entry of the transaction
\* service's mempool map is a decoded transaction, and once the service has
\* started a lookup with queryMempool gives a transaction for every txid of
\* the upstream mempool.
C21_MempoolLookup ==
    /\ \A t \in MempoolTxIds :
          mempool.entries[t] \in {"undefined", "Transaction"}
    /\ mempool.pc = "started"
          => \A t \in mempool.upstream :
                getTransactionQueryMempool(t) = [err |-> FALSE, value |-> "Transaction"]

\* C22 (SpecCodec), the claim as stated: for every height and every number
\* of inputs the encoder gives a buffer, and decoding it gives the record
\* that was encoded.
C22_RoundTrip ==
    /\ codec.pc # "thrown"
    /\ codec.pc = "decoded" => codec.back = codec.record

\* The prefixes the store holds for the services.
StoredPrefixes(st) ==
    [s \in ServiceNames |-> IF Has(st, PrefixKey(s)) THEN st[PrefixKey(s)] ELSE << >>]

\* The ops of connecting a block on the store st with every indexer started.
ConnectOps(block, st, prefixes) ==
    addressConcurrentBlockHandler(block, TRUE, prefixes["address"])
        \o timestampBlockHandler(block, TRUE, prefixes["timestamp"])
        \o blockHandler(block, TRUE, FALSE, st, prefixes["transaction"]).ops
        \o TipOps(block, TRUE)

\* The store of a node that connected the blocks of a chain from its i-th
\* block on and nothing else: genesis before the indexers are started, every
\* other block with them.
RECURSIVE SyncFromScratch(_, _, _, _)
SyncFromScratch(chain, i, st, prefixes) ==
    IF i > Len(chain) THEN st
    ELSE SyncFromScratch(chain, i + 1,
            ApplyOps(st, IF chain[i] = genesis
                         THEN TipOps(BlockAt(genesis, 0), TRUE)
                         ELSE ConnectOps(BlockAt(chain[i], i - 1), st, prefixes)),
            prefixes)

\* C7 (Spec): the tip records and the indexer keys of the store are those of
\* a node that connected the chain from genesis to the stored tip and never
\* any other block; so after a reorg from a branch A to a branch B no key of
\* a block of A is left and the store is the one of a sync along B.
C7_ReorgCorrect ==
    Has(store, TipKey)
        => BlockView(store) =
              SyncFromScratch(ChainTo(StoredTip(store).hash), 1, EmptyStore,
                              StoredPrefixes(store))

\* C7 witness: the node had connected A1 and A2, and is now at B3 with the
\* reorg and the sync finished.
C7_Witness ==
    /\ {"A1", "A2"} \subseteq hist.ever
    /\ Has(store, TipKey)
    /\ StoredTip(store).hash = "B3"
    /\ alive
    /\ sync = "Idle"
    /\ rg.pc = "idle"
    /\ ap.pc = "idle"

-----------------------------------------------------------------------------
(* Properties of the key allocator *)

StoredPrefix(service) == store[PrefixKey(service)]

C9_IdempotentPrefix ==
    /\ lastCall.had => /\ lastCall.result = lastCall.before
                       /\ lastCall.storeAfter = lastCall.storeBefore
    /\ \A s \in ServiceNames : Cardinality(returned[s]) <= 1

\* C9 witness: a call for a service that had a prefix has called back, after
\* another service was given its prefix in between.
C9_Witness ==
    /\ lastCall.had
    /\ \E t \in ServiceNames :
          /\ t # lastCall.service
          /\ returned[t] # {}
          /\ readUInt16BE(StoredPrefix(t)) > readUInt16BE(lastCall.result)

\* C10 (SpecPrefixCrash), the claim as stated: with the process stopping
\* between the steps of getPrefix, no call for a service is given a prefix
\* that is stored for another service, and stored prefixes stay distinct.
C10_UniqueAcrossCrash ==
    \A s, t \in ServiceNames :
        s # t => /\ returned[s] \cap returned[t] = {}
                 /\ (Has(store, PrefixKey(s)) /\ Has(store, PrefixKey(t))
                        => StoredPrefix(s) # StoredPrefix(t))

\* C23 (SpecPrefixInterleaved), the claim as stated: when the calls for two
\* distinct services have called back, however their steps interleaved, the
\* two services have distinct prefixes and nextUnused is greater than both.
C23_AtomicAssignment ==
    \A s, t \in ServiceNames :
        (s # t /\ calls[s].pc = "done" /\ calls[t].pc = "done")
            => /\ StoredPrefix(s) # StoredPrefix(t)
               /\ readUInt16BE(store[NextUnusedKey]) > readUInt16BE(StoredPrefix(s))
               /\ readUInt16BE(store[NextUnusedKey]) > readUInt16BE(StoredPrefix(t))

\* The keys of a sequence of ops, in order.
OpKeys(ops) == [i \in 1..Len(ops) |-> ops[i].key]

\* C24 (Spec): in every state whose stored tip is a block above genesis, with
\* the transaction service's prefix stored, the transaction service's
\* blockHandler for the disconnect of that block gives one del per
\* transaction of the block, on prefix + txid in block order; its blockHandler
\* for the connect of the block on the store so rewound gives one put per
\* transaction on the same keys; and connecting the block on the rewound
\* store and disconnecting it again gives the rewound store.
C24_DisconnectInvertsConnect ==
    (/\ Has(store, TipKey)
     /\ StoredTip(store).height >= 1
     /\ Has(store, PrefixKey("transaction")))
        => LET prefix == StoredPrefix("transaction")
               block == BlockAt(StoredTip(store).hash, StoredTip(store).height)
               keys == [i \in 1..Len(block.transactions) |->
                          encodeTransactionKey(prefix, block.transactions[i])]
               d == blockHandler(block, FALSE, FALSE, store, prefix)
               rewound == ApplyOps(store, d.ops)
               c == blockHandler(block, TRUE, FALSE, rewound, prefix)
               again == ApplyOps(rewound, c.ops)
               d2 == blockHandler(block, FALSE, FALSE, again, prefix)
           IN /\ ~d.err /\ ~c.err /\ ~d2.err
              /\ OpKeys(d.ops) = keys
              /\ OpKeys(c.ops) = keys
              /\ \A i \in 1..Len(keys) : d.ops[i].type = "del" /\ c.ops[i].type = "put"
              /\ \A i \in 1..Len(keys) : ~Has(rewound, keys[i]) /\ Has(again, keys[i])
              /\ again = store
              /\ ApplyOps(again, d2.ops) = rewound

\* C24 witness: the stored tip is A1, whose transaction t2 spends an output
\* of t1 of the same block, and the transaction service has its prefix.
C24_Witness ==
    /\ alive
    /\ Has(store, TipKey)
    /\ StoredTip(store).hash = "A1"
    /\ Has(store, PrefixKey("transaction"))
    /\ Has(store, encodeTransactionKey(StoredPrefix("transaction"), "t2"))

\* The blocks connected by the store st: the chain from genesis to its tip.
ConnectedBlocks(st) ==
    IF Has(st, TipKey) THEN Range(ChainTo(StoredTip(st).hash)) ELSE {}

\* C25 (Spec), the claim as stated: whenever getTransaction(txid, {}) of the
\* started transaction service answers with a transaction, the answer is the
\* one the committed store gives, and the transaction is of a block that is
\* connected in the committed store.
C25_ReadersSeeCommitted ==
    (alive /\ "transaction" \in Range(node.services))
        => \A txid \in TxIds :
              LET prefix == node.prefix["transaction"]
                  seen == getTransaction(txid, cur, store, prefix)
              IN ~seen.err
                    => /\ seen = getTransaction(txid, EmptyStore, store, prefix)
                       /\ \E b \in ConnectedBlocks(store) :
                              txid \in Range(BlockTxs[b])

\* The key begins with the bytes of prefix.
Begins(key, prefix) ==
    Len(key) >= Len(prefix) /\ SubSeq(key, 1, Len(prefix)) = prefix

\* The records of the database service itself.
SystemKeys ==
    {TipKey, ConcurrentTipKey, VersionKey, NextUnusedKey}
        \cup {PrefixKey(s) : s \in ServiceNames}

\* C26 (Spec): in every state each key of the store begins with the system
\* prefix 0x0000 or with a prefix the store holds for a service; the ops the
\* transaction service's blockHandler gives when it is its turn in an apply
\* have keys that begin with the prefix assigned to the service, which is
\* not the system prefix, and no op gathered from the handlers has the key
\* of the tip, concurrent tip, version, nextUnused or a prefix record.
C26_NamespaceIsolation ==
    /\ \A k \in DOMAIN store :
          \/ Begins(k, dbPrefix)
          \/ \E s \in ServiceNames :
                Has(store, PrefixKey(s)) /\ Begins(k, store[PrefixKey(s)])
    /\ (alive /\ ap.pc = "serial" /\ ap.serial[ap.idx] = "transaction")
          => LET prefix == node.prefix["transaction"]
                 ops == blockHandler(ap.block, ap.add, FALSE, store, prefix).ops
             IN /\ Len(prefix) = 2
                /\ prefix # dbPrefix
                /\ Has(store, PrefixKey("transaction"))
                /\ store[PrefixKey("transaction")] = prefix
                /\ \A i \in 1..Len(ops) :
                      Begins(ops[i].key, prefix) /\ ops[i].key \notin SystemKeys
    /\ alive => \A i \in 1..Len(ap.operations) :
                    /\ ~Begins(ap.operations[i].key, dbPrefix)
                    /\ ap.operations[i].key \notin SystemKeys

\* C26 witness: the batch of A1 is submitted with the transaction service's
\* op for t2 in it, and the store holds the transaction record of P's
\* coinbase.
C26_Witness ==
    /\ alive
    /\ ap.pc = "batch"
    /\ ap.block.hash = "A1"
    /\ \E i \in 1..Len(ap.operations) :
          ap.operations[i].key = encodeTransactionKey(node.prefix["transaction"], "t2")
    /\ Has(store, encodeTransactionKey(node.prefix["transaction"], "cp"))

\* C27 (SpecBus), the claim as stated: a step of unsubscribe(name, emitter)
\* leaves the emitter out of the list of name, leaves the list of the other
\* event and the order of the other subscribers as they were, and changes
\* nothing when the emitter was not in the list.
C27_Unsubscribed ==
    [][\A name \in Topics, emitter \in Emitters :
          unsubscribe(name, emitter)
             => /\ emitter \notin Range(subscriptions'[name])
                /\ \A other \in Topics \ {name} :
                      subscriptions'[other] = subscriptions[other]
                /\ SelectSeq(subscriptions'[name], LAMBDA e : e # emitter)
                      = SelectSeq(subscriptions[name], LAMBDA e : e # emitter)
                /\ emitter \notin Range(subscriptions[name])
                      => subscriptions' = subscriptions]_vars

C29_ShutdownOnce ==
    /\ Len(proc.stops) <= 1
    /\ proc.stopped <= 1

\* C11 (SpecPrefixExhaust), the claim as stated: with nextUnused at the end
\* of the 16-bit range a getPrefix call for a new service fails and assigns
\* nothing, so no prefix is stored for or given to two services, and none is
\* 0x0000.
C11_NoReuseAtExhaustion ==
    /\ \A s, t \in ServiceNames :
          s # t => /\ returned[s] \cap returned[t] = {}
                   /\ (Has(store, PrefixKey(s)) /\ Has(store, PrefixKey(t))
                          => StoredPrefix(s) # StoredPrefix(t))
    /\ \A s \in ServiceNames :
          /\ dbPrefix \notin returned[s]
          /\ Has(store, PrefixKey(s)) => StoredPrefix(s) # dbPrefix
          /\ Has(store, NextUnusedKey) => store[NextUnusedKey] # dbPrefix

====
